---- MODULE Spec2Model ----
(***************************************************************************)
(* Trajectory synthesis engine of Trajectoire_Avion_V2                     *)
(* (src/trajectory_calculator.py, src/aircraft.py, src/environment.py).    *)
(*                                                                         *)
(* One planning call is modelled as a state machine whose control          *)
(* position pc walks through calculate_trajectory /                        *)
(* calculate_trajectory_with_turn.  The floating point arithmetic of the   *)
(* source is modelled in fixed point: lengths are integers in units of     *)
(* 1/Km kilometre, unit vectors have coordinates scaled by Unit, tangents  *)
(* are scaled by TanScale.  Sample counts are the source's formulas with   *)
(* the densities scaled down (the *Pts bounds below).                      *)
(***************************************************************************)
EXTENDS Integers, Sequences, FiniteSets, TLC

VARIABLES
    mode,       \* "progressive" (calculate_trajectory) or "tangent" (calculate_trajectory_with_turn)
    aircraft,   \* the Aircraft instance given to the call
    env,        \* the Environment: airport_position, faf_position
    cylinders,  \* the obstacle list
    pc,         \* position of the call in the code
    profile,    \* the altitude phases of the plan: level flight, transition, descent
    waypoints,  \* waypoints_2d
    trajectory, \* trajectory: the plan the call will return if nothing replaces it
    waypoints_retry,  \* waypoints_2d_retry of the rebuild in hand
    trajectory_retry, \* trajectory_retry of the rebuild in hand
    attempt,    \* loop variable of the retry loop, 0-based
    log,        \* history: one entry per candidate built or validated
    result,     \* what the call gave to its caller
    parameters  \* the parameters dict given to the caller with the trajectory

vars == <<mode, aircraft, env, cylinders, pc, profile, waypoints, trajectory, waypoints_retry,
         trajectory_retry, attempt, log, result, parameters>>

-----------------------------------------------------------------------------
(* Units and fixed point arithmetic *)

Km == 100
Unit == 1000
TanScale == 10000

Abs(a) == IF a < 0 THEN -a ELSE a
Max(a, b) == IF a >= b THEN a ELSE b
Min(a, b) == IF a <= b THEN a ELSE b
Clip(a, lo, hi) == Max(lo, Min(hi, a))

\* a / b rounded to the nearest integer, b > 0
Rnd(a, b) == (2 * a + b) \div (2 * b)

RECURSIVE SqrtBetween(_, _, _)
SqrtBetween(n, lo, hi) ==
    IF lo >= hi THEN lo
    ELSE LET mid == (lo + hi + 1) \div 2
         IN IF mid * mid <= n THEN SqrtBetween(n, mid, hi)
                              ELSE SqrtBetween(n, lo, mid - 1)

\* square root rounded to the nearest integer
Sqrt(n) ==
    LET r == SqrtBetween(n, 0, 40000)
    IN IF n - r * r > r THEN r + 1 ELSE r

Vec(x, y) == <<x, y>>
Add(a, b) == <<a[1] + b[1], a[2] + b[2]>>
Sub(a, b) == <<a[1] - b[1], a[2] - b[2]>>
Dot(a, b) == a[1] * b[1] + a[2] * b[2]
Cross(a, b) == a[1] * b[2] - a[2] * b[1]

\* np.linalg.norm of a 2D vector
Norm(v) == Sqrt(v[1] * v[1] + v[2] * v[2])

\* np.linalg.norm of a 3D vector
Norm3(v) == Sqrt(v[1] * v[1] + v[2] * v[2] + v[3] * v[3])

\* v / np.linalg.norm(v): a unit vector, coordinates scaled by Unit
Normalize(v) ==
    LET n == Norm(v)
    IN <<Rnd(v[1] * Unit, n), Rnd(v[2] * Unit, n)>>

\* d * dir for a length d and a unit vector dir
Along(d, dir) == <<Rnd(d * dir[1], Unit), Rnd(d * dir[2], Unit)>>

\* the perpendicular [-dir[1], dir[0]] of the source
Perp(dir) == <<-dir[2], dir[1]>>

XY(p) == <<p[1], p[2]>>

-----------------------------------------------------------------------------
(* Aircraft (src/aircraft.py) *)

\* |tan(max_descent_slope)| of AircraftType.SPECIFICATIONS, scaled by TanScale
TanDescent(type) ==
    CASE type = "light" -> 1763
      [] type = "commercial" -> 1051
      [] type = "cargo" -> 875

\* approach_speed of AircraftType.SPECIFICATIONS, km/h
ApproachSpeed(type) ==
    CASE type = "light" -> 120
      [] type = "commercial" -> 180
      [] type = "cargo" -> 160

\* tan(max_bank_angle) of AircraftType.SPECIFICATIONS, scaled by TanScale
TanBank(type) ==
    CASE type = "light" -> 5774
      [] type = "commercial" -> 4663
      [] type = "cargo" -> 3640

\* [sin(heading), cos(heading)] scaled by Unit
HeadingDir(heading) ==
    CASE heading = 0 -> <<0, Unit>>
      [] heading = 45 -> <<707, 707>>
      [] heading = 90 -> <<Unit, 0>>
      [] heading = 135 -> <<707, -707>>
      [] heading = 180 -> <<0, -Unit>>
      [] heading = 225 -> <<-707, -707>>
      [] heading = 270 -> <<-Unit, 0>>
      [] heading = 315 -> <<-707, 707>>

\* the sign of the component of [sin, cos] that is not exactly zero in double precision
\* although it is zero here: cos(pi/2) = 6.1e-17, sin(pi) = 1.2e-16, cos(3pi/2) = -1.8e-16
HeadingResidue(heading) ==
    CASE heading = 90 -> <<0, 1>>
      [] heading = 180 -> <<1, 0>>
      [] heading = 270 -> <<0, -1>>
      [] OTHER -> <<0, 0>>

-----------------------------------------------------------------------------
(* Samples *)

\* one row of a trajectory array; ph records which code path set the altitude
Sample(x, y, z, ph) == [x |-> x, y |-> y, z |-> z, ph |-> ph]
Pos(s) == <<s.x, s.y, s.z>>

\* scaled-down sample densities (the source uses 50, 100 and 100 resp. 150 per km)
InitialMinPts == 4
SegmentMinPts == 6
PtsPerKm == 1

\* t = i / (n - 1) scaled by Unit, i from 0
Frac(i, n) == Rnd(i * Unit, n - 1)

-----------------------------------------------------------------------------
(* Altitude profile of _build_trajectory_with_runway_alignment *)

\* faulty variant: the descent keeps the length the maximum slope asks for when the
\* distance is limited
AltitudePhasesFullDescent(type, start_pos, faf_pos) ==
    LET total_distance_to_faf == Norm(Sub(XY(faf_pos), XY(start_pos)))
        altitude_diff == faf_pos[3] - start_pos[3]
        min_descent_distance == Rnd(Abs(altitude_diff) * TanScale, TanDescent(type))
        transition0 == Max(Min(Rnd(min_descent_distance, 2), 12 * Km), 3 * Km)
        limited == min_descent_distance + transition0 >= total_distance_to_faf
    IN [limited |-> limited,
        total |-> total_distance_to_faf,
        min_descent |-> min_descent_distance,
        transition0 |-> transition0,
        level |-> IF limited THEN 0
                  ELSE total_distance_to_faf - min_descent_distance - transition0,
        transition |-> IF limited THEN Min(transition0, Rnd(total_distance_to_faf * 3, 10))
                       ELSE transition0,
        descent |-> min_descent_distance]

\* faulty variant: the transition keeps its full length when the distance is limited
AltitudePhasesUnshrunk(type, start_pos, faf_pos) ==
    LET total_distance_to_faf == Norm(Sub(XY(faf_pos), XY(start_pos)))
        altitude_diff == faf_pos[3] - start_pos[3]
        min_descent_distance == Rnd(Abs(altitude_diff) * TanScale, TanDescent(type))
        transition0 == Max(Min(Rnd(min_descent_distance, 2), 12 * Km), 3 * Km)
        limited == min_descent_distance + transition0 >= total_distance_to_faf
    IN [limited |-> limited,
        total |-> total_distance_to_faf,
        min_descent |-> min_descent_distance,
        transition0 |-> transition0,
        level |-> IF limited THEN 0
                  ELSE total_distance_to_faf - min_descent_distance - transition0,
        transition |-> transition0,
        descent |-> IF limited THEN total_distance_to_faf - transition0
                    ELSE min_descent_distance]

AltitudePhases(type, start_pos, faf_pos) ==
    LET total_distance_to_faf == Norm(Sub(XY(faf_pos), XY(start_pos)))
        altitude_diff == faf_pos[3] - start_pos[3]
        min_descent_distance == Rnd(Abs(altitude_diff) * TanScale, TanDescent(type))
        transition0 == Max(Min(Rnd(min_descent_distance, 2), 12 * Km), 3 * Km)
        total_descent_distance == min_descent_distance + transition0
    IN IF total_descent_distance >= total_distance_to_faf
       THEN LET transition_distance == Min(transition0, Rnd(total_distance_to_faf * 3, 10))
            IN [limited |-> TRUE,
                total |-> total_distance_to_faf,
                min_descent |-> min_descent_distance,
                transition0 |-> transition0,
                level |-> 0,
                transition |-> transition_distance,
                descent |-> total_distance_to_faf - transition_distance]
       ELSE [limited |-> FALSE,
             total |-> total_distance_to_faf,
             min_descent |-> min_descent_distance,
             transition0 |-> transition0,
             level |-> total_distance_to_faf - total_descent_distance,
             transition |-> transition0,
             descent |-> min_descent_distance]

\* -20t^7 + 70t^6 - 84t^5 + 35t^4 for t in [0, 1], both scaled by Unit
SuperSmoothstep(t) ==
    LET t2 == Rnd(t * t, Unit)
        t3 == Rnd(t2 * t, Unit)
        t4 == Rnd(t2 * t2, Unit)
    IN Rnd(t4 * (35 * Unit - 84 * t + 70 * t2 - 20 * t3), Unit)

\* altitude and phase at current_distance along the waypoint chain
AltitudeAt(phases, type, altitude_start, altitude_end, current_distance) ==
    LET tanA == TanDescent(type)
        transition_altitude_drop == Rnd(phases.transition * tanA, TanScale)
    IN IF current_distance < phases.level
       THEN [z |-> altitude_start, ph |-> "level"]
       ELSE IF current_distance < phases.level + phases.transition
       THEN LET t == Rnd((current_distance - phases.level) * Unit, phases.transition)
            IN [z |-> altitude_start - Rnd(SuperSmoothstep(t) * transition_altitude_drop, Unit),
                ph |-> "transition"]
       ELSE LET descent_progress == current_distance - phases.level - phases.transition
                descent_altitude_drop == Rnd(descent_progress * tanA, TanScale)
            IN [z |-> Max(altitude_start - transition_altitude_drop - descent_altitude_drop,
                          altitude_end),
                ph |-> "descent"]

-----------------------------------------------------------------------------
(* Segment 1: initial straight flight *)

InitialFlightDist(start_pos, faf_pos) ==
    Clip(Rnd(Norm(Sub(XY(faf_pos), XY(start_pos))) * 20, 100), 1 * Km, 5 * Km)

InitialEndPoint(start_pos, faf_pos, current_dir) ==
    Add(XY(start_pos), Along(InitialFlightDist(start_pos, faf_pos), current_dir))

\* faulty variant: the samples start one step after the aircraft position
InitialSegmentFromFirstStep(start_pos, faf_pos, current_dir) ==
    LET d == InitialFlightDist(start_pos, faf_pos)
        n_initial == Max(InitialMinPts, (d * PtsPerKm) \div Km)
    IN [k \in 1..n_initial |->
          LET pos_2d == Add(XY(start_pos), Along(Rnd(Frac(k, n_initial + 1) * d, Unit), current_dir))
          IN Sample(pos_2d[1], pos_2d[2], start_pos[3], "initial")]

\* the straight initial flight along the current heading
InitialSegment(start_pos, faf_pos, current_dir) ==
    LET d == InitialFlightDist(start_pos, faf_pos)
        n_initial == Max(InitialMinPts, (d * PtsPerKm) \div Km)
    IN [k \in 1..n_initial |->
          LET pos_2d == Add(XY(start_pos), Along(Rnd(Frac(k - 1, n_initial) * d, Unit), current_dir))
          IN Sample(pos_2d[1], pos_2d[2], start_pos[3], "initial")]

-----------------------------------------------------------------------------
(* Obstacle avoidance waypoints *)

\* faulty variant: the projection of the centre is not compared with the segment
DetourWaypointsAlongWholeLine(cylinder, start_2d, traj_dir, traj_dist, altitude, margin, min_approach) ==
    LET cyl_center == <<cylinder.x, cylinder.y>>
        cyl_radius == cylinder.radius + margin
        to_cyl == Sub(cyl_center, start_2d)
        proj_length == Rnd(Dot(to_cyl, traj_dir), Unit)
        closest_point == Add(start_2d, Along(proj_length, traj_dir))
        dist_to_segment == Norm(Sub(cyl_center, closest_point))
        perp == Perp(traj_dir)
        cross_product == to_cyl[1] * traj_dir[2] - to_cyl[2] * traj_dir[1]
        side == IF cross_product > 0 THEN 1 ELSE -1
        approach_distance == Max(Rnd(cyl_radius * 8, 10), min_approach)
        entry_pos_on_traj == Max(0, proj_length - approach_distance)
        exit_pos_on_traj == Min(traj_dist, proj_length + approach_distance)
        entry_base == Add(start_2d, Along(entry_pos_on_traj, traj_dir))
        exit_base == Add(start_2d, Along(exit_pos_on_traj, traj_dir))
        offset_distance == (cylinder.radius - dist_to_segment) + margin
        entry_point == Add(entry_base, Along(side * offset_distance, perp))
        exit_point == Add(exit_base, Along(side * offset_distance, perp))
        min_safe_distance == cylinder.radius + margin
        Pushed(point) ==
            IF Norm(Sub(point, cyl_center)) < min_safe_distance
            THEN Add(cyl_center, Along(min_safe_distance, Normalize(Sub(point, cyl_center))))
            ELSE point
    IN IF altitude > cylinder.height + Km \div 2 THEN <<>>
       ELSE IF dist_to_segment < cyl_radius THEN <<Pushed(entry_point), Pushed(exit_point)>>
       ELSE <<>>

\* faulty variant: the margin is left out of the offset and of the re-projection
DetourWaypointsWithoutMargin(cylinder, start_2d, traj_dir, traj_dist, altitude, margin, min_approach) ==
    LET cyl_center == <<cylinder.x, cylinder.y>>
        cyl_radius == cylinder.radius + margin
        to_cyl == Sub(cyl_center, start_2d)
        proj_length == Rnd(Dot(to_cyl, traj_dir), Unit)
        closest_point == Add(start_2d, Along(proj_length, traj_dir))
        dist_to_segment == Norm(Sub(cyl_center, closest_point))
        perp == Perp(traj_dir)
        cross_product == to_cyl[1] * traj_dir[2] - to_cyl[2] * traj_dir[1]
        side == IF cross_product > 0 THEN 1 ELSE -1
        approach_distance == Max(Rnd(cyl_radius * 8, 10), min_approach)
        entry_pos_on_traj == Max(0, proj_length - approach_distance)
        exit_pos_on_traj == Min(traj_dist, proj_length + approach_distance)
        entry_base == Add(start_2d, Along(entry_pos_on_traj, traj_dir))
        exit_base == Add(start_2d, Along(exit_pos_on_traj, traj_dir))
        offset_distance == cylinder.radius - dist_to_segment
        entry_point == Add(entry_base, Along(side * offset_distance, perp))
        exit_point == Add(exit_base, Along(side * offset_distance, perp))
        min_safe_distance == cylinder.radius
        Pushed(point) ==
            IF Norm(Sub(point, cyl_center)) < min_safe_distance
            THEN Add(cyl_center, Along(min_safe_distance, Normalize(Sub(point, cyl_center))))
            ELSE point
    IN IF altitude > cylinder.height + Km \div 2 THEN <<>>
       ELSE IF proj_length < 0 \/ proj_length > traj_dist THEN <<>>
       ELSE IF dist_to_segment < cyl_radius THEN <<Pushed(entry_point), Pushed(exit_point)>>
       ELSE <<>>

\* faulty variant: the detour goes to the side of the obstacle centre
DetourWaypointsTowardCentre(cylinder, start_2d, traj_dir, traj_dist, altitude, margin, min_approach) ==
    LET cyl_center == <<cylinder.x, cylinder.y>>
        cyl_radius == cylinder.radius + margin
        to_cyl == Sub(cyl_center, start_2d)
        proj_length == Rnd(Dot(to_cyl, traj_dir), Unit)
        closest_point == Add(start_2d, Along(proj_length, traj_dir))
        dist_to_segment == Norm(Sub(cyl_center, closest_point))
        perp == Perp(traj_dir)
        cross_product == to_cyl[1] * traj_dir[2] - to_cyl[2] * traj_dir[1]
        side == IF cross_product > 0 THEN -1 ELSE 1
        approach_distance == Max(Rnd(cyl_radius * 8, 10), min_approach)
        entry_pos_on_traj == Max(0, proj_length - approach_distance)
        exit_pos_on_traj == Min(traj_dist, proj_length + approach_distance)
        entry_base == Add(start_2d, Along(entry_pos_on_traj, traj_dir))
        exit_base == Add(start_2d, Along(exit_pos_on_traj, traj_dir))
        offset_distance == (cylinder.radius - dist_to_segment) + margin
        entry_point == Add(entry_base, Along(side * offset_distance, perp))
        exit_point == Add(exit_base, Along(side * offset_distance, perp))
        min_safe_distance == cylinder.radius + margin
        Pushed(point) ==
            IF Norm(Sub(point, cyl_center)) < min_safe_distance
            THEN Add(cyl_center, Along(min_safe_distance, Normalize(Sub(point, cyl_center))))
            ELSE point
    IN IF altitude > cylinder.height + Km \div 2 THEN <<>>
       ELSE IF proj_length < 0 \/ proj_length > traj_dist THEN <<>>
       ELSE IF dist_to_segment < cyl_radius THEN <<Pushed(entry_point), Pushed(exit_point)>>
       ELSE <<>>

\* the two detour waypoints of one cylinder, or none
\* (loop body shared by _calculate_avoidance_waypoints and ..._with_margin)
DetourWaypoints(cylinder, start_2d, traj_dir, traj_dist, altitude, margin, min_approach) ==
    LET cyl_center == <<cylinder.x, cylinder.y>>
        cyl_radius == cylinder.radius + margin
        to_cyl == Sub(cyl_center, start_2d)
        proj_length == Rnd(Dot(to_cyl, traj_dir), Unit)
        closest_point == Add(start_2d, Along(proj_length, traj_dir))
        dist_to_segment == Norm(Sub(cyl_center, closest_point))
        perp == Perp(traj_dir)
        cross_product == to_cyl[1] * traj_dir[2] - to_cyl[2] * traj_dir[1]
        side == IF cross_product > 0 THEN 1 ELSE -1
        approach_distance == Max(Rnd(cyl_radius * 8, 10), min_approach)
        entry_pos_on_traj == Max(0, proj_length - approach_distance)
        exit_pos_on_traj == Min(traj_dist, proj_length + approach_distance)
        entry_base == Add(start_2d, Along(entry_pos_on_traj, traj_dir))
        exit_base == Add(start_2d, Along(exit_pos_on_traj, traj_dir))
        offset_distance == (cylinder.radius - dist_to_segment) + margin
        entry_point == Add(entry_base, Along(side * offset_distance, perp))
        exit_point == Add(exit_base, Along(side * offset_distance, perp))
        min_safe_distance == cylinder.radius + margin
        Pushed(point) ==
            IF Norm(Sub(point, cyl_center)) < min_safe_distance
            THEN Add(cyl_center, Along(min_safe_distance, Normalize(Sub(point, cyl_center))))
            ELSE point
    IN IF altitude > cylinder.height + Km \div 2 THEN <<>>
       ELSE IF proj_length < 0 \/ proj_length > traj_dist THEN <<>>
       ELSE IF dist_to_segment < cyl_radius THEN <<Pushed(entry_point), Pushed(exit_point)>>
       ELSE <<>>

RECURSIVE DetoursFrom(_, _, _, _, _, _, _, _)
DetoursFrom(k, cyls, start_2d, traj_dir, traj_dist, altitude, margin, min_approach) ==
    IF k > Len(cyls) THEN <<>>
    ELSE DetourWaypoints(cyls[k], start_2d, traj_dir, traj_dist, altitude, margin, min_approach)
         \o DetoursFrom(k + 1, cyls, start_2d, traj_dir, traj_dist, altitude, margin, min_approach)

\* safety_margin of _calculate_avoidance_waypoints, 0.5 km
DefaultSafetyMargin == 50

\* _calculate_avoidance_waypoints
CalculateAvoidanceWaypoints(start_2d, end_2d, cyls, altitude) ==
    LET traj_vec == Sub(end_2d, start_2d)
        traj_dist == Norm(traj_vec)
    IN IF traj_dist < 1 THEN <<>>
       ELSE DetoursFrom(1, cyls, start_2d, Normalize(traj_vec), traj_dist, altitude,
                        DefaultSafetyMargin, 1 * Km)

\* _calculate_avoidance_waypoints_with_margin
CalculateAvoidanceWaypointsWithMargin(start_2d, end_2d, cyls, altitude, safety_factor) ==
    LET traj_vec == Sub(end_2d, start_2d)
        traj_dist == Norm(traj_vec)
    IN IF traj_dist < 1 THEN <<>>
       ELSE DetoursFrom(1, cyls, start_2d, Normalize(traj_vec), traj_dist, altitude,
                        safety_factor, Rnd(safety_factor, 2))

-----------------------------------------------------------------------------
(* Collision check *)

\* _check_collision_with_cylinder
CheckCollisionWithCylinder(point, cylinder) ==
    LET dx == point.x - cylinder.x
        dy == point.y - cylinder.y
    IN /\ dx * dx + dy * dy <= cylinder.radius * cylinder.radius
       /\ 0 <= point.z
       /\ point.z <= cylinder.height

\* has_collision of _check_trajectory_collision
CheckTrajectoryCollision(traj, cyls) ==
    \E i \in 1..Len(traj) : \E c \in 1..Len(cyls) : CheckCollisionWithCylinder(traj[i], cyls[c])

\* faulty variant: the index of the first collision is overwritten by every later one
CollisionStepKeepingLast(found, i, cyl_idx, collides) ==
    IF ~collides THEN found
    ELSE [colliding_cylinders |->
              IF \E k \in 1..Len(found.colliding_cylinders) :
                     found.colliding_cylinders[k] = cyl_idx
              THEN found.colliding_cylinders
              ELSE Append(found.colliding_cylinders, cyl_idx),
          first_collision_idx |-> i]

\* the body of the two loops of _check_trajectory_collision, for sample i and obstacle
\* cyl_idx (both counted from 0, as the source does)
CollisionStep(found, i, cyl_idx, collides) ==
    IF ~collides THEN found
    ELSE [colliding_cylinders |->
              IF \E k \in 1..Len(found.colliding_cylinders) :
                     found.colliding_cylinders[k] = cyl_idx
              THEN found.colliding_cylinders
              ELSE Append(found.colliding_cylinders, cyl_idx),
          first_collision_idx |->
              IF found.first_collision_idx = -1 THEN i ELSE found.first_collision_idx]

RECURSIVE CollisionScan(_, _, _, _, _)
\* the loops over the samples and, for each sample, over the obstacles, from the lo-th to
\* the hi-th (sample, obstacle) pair in the order of the source (the scan is split in halves)
CollisionScan(traj, cyls, lo, hi, found) ==
    IF lo > hi THEN found
    ELSE IF lo = hi
    THEN LET i == (lo - 1) \div Len(cyls)
             cyl_idx == (lo - 1) % Len(cyls)
         IN CollisionStep(found, i, cyl_idx,
                          CheckCollisionWithCylinder(traj[i + 1], cyls[cyl_idx + 1]))
    ELSE LET mid == (lo + hi) \div 2
         IN CHOOSE after \in {CollisionScan(traj, cyls, mid + 1, hi, so_far) :
                                 so_far \in {CollisionScan(traj, cyls, lo, mid, found)}} : TRUE

\* _check_trajectory_collision: (has_collision, colliding_cylinders, first_collision_index)
CheckTrajectoryCollisionResult(traj, cyls) ==
    IF cyls = <<>>
    THEN [has_collision |-> FALSE, colliding_cylinders |-> <<>>, first_collision_idx |-> -1]
    ELSE CHOOSE returned \in
             {[has_collision |-> Len(found.colliding_cylinders) > 0,
               colliding_cylinders |-> found.colliding_cylinders,
               first_collision_idx |-> found.first_collision_idx] :
              found \in {CollisionScan(traj, cyls, 1, Len(traj) * Len(cyls),
                                       [colliding_cylinders |-> <<>>,
                                        first_collision_idx |-> -1])}} : TRUE

-----------------------------------------------------------------------------
(* Bezier stitching of the waypoint chain *)

RECURSIVE DistSoFar(_, _)
\* sum of the chord lengths of the first n segments of the chain
DistSoFar(wps, n) ==
    IF n = 0 THEN 0
    ELSE DistSoFar(wps, n - 1) + Norm(Sub(wps[n + 1], wps[n]))

\* direction of a chord, or the fallback when the chord is shorter than 0.01 km
DirOr(v, fallback) == IF Norm(v) > 1 THEN Normalize(v) ELSE fallback

\* the cubic Bezier point at t (scaled by Unit)
BezierPoint(P0, P1, P2, P3, t) ==
    LET u == Unit - t
        b0 == Rnd(Rnd(u * u, Unit) * u, Unit)
        b1 == Rnd(3 * Rnd(u * u, Unit) * t, Unit)
        b2 == Rnd(3 * u * Rnd(t * t, Unit), Unit)
        b3 == Unit - b0 - b1 - b2
    IN <<Rnd(b0 * P0[1] + b1 * P1[1] + b2 * P2[1] + b3 * P3[1], Unit),
         Rnd(b0 * P0[2] + b1 * P1[2] + b2 * P2[2] + b3 * P3[2], Unit)>>

\* control points of segment k (1-based) of the chain
ControlPoints(wps, k, current_dir, runway_dir) ==
    LET wp_start == wps[k]
        wp_end == wps[k + 1]
        segment_distance == Norm(Sub(wp_end, wp_start))
        seg_dir == IF segment_distance > 1 THEN Normalize(Sub(wp_end, wp_start)) ELSE <<Unit, 0>>
        handle == Rnd(segment_distance * 35, 100)
        in_dir == IF k = 1 THEN current_dir ELSE DirOr(Sub(wp_start, wps[k - 1]), seg_dir)
        out_dir == IF k = Len(wps) - 1 THEN runway_dir ELSE DirOr(Sub(wps[k + 2], wp_end), seg_dir)
    IN [P0 |-> wp_start,
        P1 |-> Add(wp_start, Along(handle, in_dir)),
        P2 |-> Sub(wp_end, Along(handle, out_dir)),
        P3 |-> wp_end]

\* segment_array of segment k of the chain
BezierSegment(wps, k, current_dir, runway_dir, phases, type, altitude_start, altitude_end) ==
    LET cp == ControlPoints(wps, k, current_dir, runway_dir)
        segment_distance == Norm(Sub(wps[k + 1], wps[k]))
        n_segment == Max(SegmentMinPts, (segment_distance * PtsPerKm) \div Km)
        dist_so_far == DistSoFar(wps, k - 1)
    IN [i \in 1..n_segment |->
          LET t_local == Frac(i - 1, n_segment)
              pos_2d == BezierPoint(cp.P0, cp.P1, cp.P2, cp.P3, t_local)
              current_distance == dist_so_far + Rnd(t_local * segment_distance, Unit)
              alt == AltitudeAt(phases, type, altitude_start, altitude_end, current_distance)
          IN Sample(pos_2d[1], pos_2d[2], alt.z, alt.ph)]

RECURSIVE StitchFrom(_, _, _, _, _, _, _, _)
StitchFrom(k, wps, current_dir, runway_dir, phases, type, altitude_start, altitude_end) ==
    IF k > Len(wps) - 1 THEN <<>>
    ELSE BezierSegment(wps, k, current_dir, runway_dir, phases, type, altitude_start, altitude_end)
         \o StitchFrom(k + 1, wps, current_dir, runway_dir, phases, type, altitude_start, altitude_end)

\* np.vstack of the initial segment and the Bezier segments of the chain
Stitch(initial_segment, wps, current_dir, runway_dir, phases, type, start_pos, faf_pos) ==
    initial_segment
    \o StitchFrom(1, wps, current_dir, runway_dir, phases, type, start_pos[3], faf_pos[3])

\* scaled-down final blend: the source blends len(trajectory) // 20 points and 100 at
\* most, which is the number of points a Bezier segment has at least
BlendDivisor == 5
BlendMaxPts == SegmentMinPts

\* faulty variant: the blend takes half of the samples
BlendToFafOverHalf(traj, faf_pos) ==
    LET n == Len(traj)
        n_smooth_final == n \div 2
    IN [idx \in 1..n |->
          IF idx <= n - n_smooth_final THEN traj[idx]
          ELSE LET t == Frac(idx - (n - n_smooth_final) - 1, n_smooth_final)
               IN Sample(Rnd((Unit - t) * traj[idx].x + t * faf_pos[1], Unit),
                         Rnd((Unit - t) * traj[idx].y + t * faf_pos[2], Unit),
                         Rnd((Unit - t) * traj[idx].z + t * faf_pos[3], Unit),
                         traj[idx].ph)]

\* trajectory[-1] = faf_pos
EndAtFaf(traj, faf_pos) ==
    [traj EXCEPT ![Len(traj)] = Sample(faf_pos[1], faf_pos[2], faf_pos[3], traj[Len(traj)].ph)]

\* the final blend toward the FAF over the last n_smooth_final samples
BlendToFaf(traj, faf_pos) ==
    LET n == Len(traj)
        n_smooth_final == Min(BlendMaxPts, n \div BlendDivisor)
    IN [idx \in 1..n |->
          IF idx <= n - n_smooth_final THEN traj[idx]
          ELSE LET t == Frac(idx - (n - n_smooth_final) - 1, n_smooth_final)
               IN Sample(Rnd((Unit - t) * traj[idx].x + t * faf_pos[1], Unit),
                         Rnd((Unit - t) * traj[idx].y + t * faf_pos[2], Unit),
                         Rnd((Unit - t) * traj[idx].z + t * faf_pos[3], Unit),
                         traj[idx].ph)]

\* runway_direction of calculate_trajectory: from the FAF toward the airport
RunwayDirection(environment) ==
    Normalize(Sub(XY(environment.airport_position), XY(environment.faf_position)))

\* waypoints_2d of the initial plan
InitialWaypoints(start_pos, faf_pos, current_dir, cyls) ==
    LET initial_end_point == InitialEndPoint(start_pos, faf_pos, current_dir)
    IN <<initial_end_point>>
       \o (IF cyls # <<>>
           THEN CalculateAvoidanceWaypoints(initial_end_point, XY(faf_pos), cyls, start_pos[3])
           ELSE <<>>)
       \o <<XY(faf_pos)>>

\* waypoints_2d_retry of a rebuild with the given margin
RetryWaypoints(start_pos, faf_pos, current_dir, cyls, safety_factor) ==
    LET initial_end_point == InitialEndPoint(start_pos, faf_pos, current_dir)
    IN <<initial_end_point>>
       \o CalculateAvoidanceWaypointsWithMargin(initial_end_point, XY(faf_pos), cyls,
                                                start_pos[3], safety_factor)
       \o <<XY(faf_pos)>>

\* the initial plan: stitched, blended, ended at the FAF
InitialPlan(ac, environment, wps) ==
    LET start_pos == ac.position
        faf_pos == environment.faf_position
        current_dir == HeadingDir(ac.heading)
        phases == AltitudePhases(ac.type, start_pos, faf_pos)
        stitched == Stitch(InitialSegment(start_pos, faf_pos, current_dir), wps, current_dir,
                           RunwayDirection(environment), phases, ac.type, start_pos, faf_pos)
    IN EndAtFaf(BlendToFaf(stitched, faf_pos), faf_pos)

\* trajectory_retry: stitched and ended at the FAF
RetryPlan(ac, environment, wps) ==
    LET start_pos == ac.position
        faf_pos == environment.faf_position
        current_dir == HeadingDir(ac.heading)
        phases == AltitudePhases(ac.type, start_pos, faf_pos)
        stitched == Stitch(InitialSegment(start_pos, faf_pos, current_dir), wps, current_dir,
                           RunwayDirection(environment), phases, ac.type, start_pos, faf_pos)
    IN EndAtFaf(stitched, faf_pos)

-----------------------------------------------------------------------------
(* Degenerate fallbacks *)

\* scaled-down point counts of the fallbacks (the source uses 500 and 300)
SimpleMinPts == 5
VerticalMinPts == 5

\* start + t * (target - start) on the three coordinates, t scaled by Unit
Lerp3(a, b, t) ==
    <<a[1] + Rnd(t * (b[1] - a[1]), Unit),
      a[2] + Rnd(t * (b[2] - a[2]), Unit),
      a[3] + Rnd(t * (b[3] - a[3]), Unit)>>

\* a straight run of n samples from a to b, both ends included
LinearSegment(a, b, n, ph) ==
    [i \in 1..n |-> LET p == Lerp3(a, b, Frac(i - 1, n)) IN Sample(p[1], p[2], p[3], ph)]

\* _calculate_simple_trajectory
SimpleTrajectory(start_pos, target_pos) ==
    LET distance == Norm3(<<target_pos[1] - start_pos[1], target_pos[2] - start_pos[2],
                            target_pos[3] - start_pos[3]>>)
        n_points == Max(SimpleMinPts, (distance * PtsPerKm) \div Km)
    IN LinearSegment(start_pos, target_pos, n_points, "simple")

\* _vertical_trajectory
VerticalTrajectory(start_pos, target_pos) ==
    LET altitude_diff == Abs(target_pos[3] - start_pos[3])
        n_points == Max(VerticalMinPts, (altitude_diff * 2 * PtsPerKm) \div Km)
    IN [i \in 1..n_points |->
          LET t == Frac(i - 1, n_points)
              smooth_t == Rnd(Rnd(t * t, Unit) * (3 * Unit - 2 * t), Unit)
              p == Lerp3(start_pos, target_pos, smooth_t)
          IN Sample(p[1], p[2], p[3], "vertical")]

-----------------------------------------------------------------------------
(* Emergency avoidance (_calculate_emergency_avoidance_trajectory) *)

\* scaled-down point counts (the source uses 200 and 300 points at least)
EmergencyMinPts == 6
MultiMinPts == 7

\* margins of the emergency strategies, km
EmergencyMargin == 8
SuperEmergencyMargin == 15
UltraSafetyMargin == 20
SuperUltraMargin == 40

\* cylinder['center'] raises KeyError on a dict without that key
HasCenterKey(cyls) == \A c \in 1..Len(cyls) : cyls[c].has_center

\* sin(t * pi) for t in [0, 1], both scaled by Unit
SinPi(t) ==
    LET p == Rnd(t * (Unit - t), Unit)
    IN Rnd(16 * p * Unit, 5 * Unit - 4 * p)

\* the avoidance point of one cylinder, first strategy
EmergencyPoint(cylinder, start_pos, faf_pos) ==
    LET center == <<cylinder.x, cylinder.y>>
        safety_distance == cylinder.radius + EmergencyMargin * Km
        direction_norm == Normalize(Sub(XY(faf_pos), XY(start_pos)))
        perpendicular == Perp(direction_norm)
        midpoint == <<Rnd(start_pos[1] + faf_pos[1], 2), Rnd(start_pos[2] + faf_pos[2], 2)>>
        center_to_mid == Sub(midpoint, center)
        avoid_direction == IF Norm(center_to_mid) > 0 THEN Normalize(center_to_mid)
                           ELSE perpendicular
        p == Add(center, Along(safety_distance, avoid_direction))
    IN <<p[1], p[2], start_pos[3] + Rnd(faf_pos[3] - start_pos[3], 2)>>

\* emergency_waypoints of the first strategy
EmergencyWaypoints(start_pos, faf_pos, cyls) ==
    <<start_pos>> \o [c \in 1..Len(cyls) |-> EmergencyPoint(cyls[c], start_pos, faf_pos)]
                  \o <<faf_pos>>

\* emergency_waypoints after the 15 km pass has moved their horizontal position
SuperEmergencyWaypoints(start_pos, faf_pos, cyls) ==
    LET first == EmergencyWaypoints(start_pos, faf_pos, cyls)
        perpendicular == Normalize(Perp(Sub(XY(faf_pos), XY(start_pos))))
    IN [k \in 1..Len(first) |->
          IF k = 1 \/ k = Len(first) THEN first[k]
          ELSE LET cylinder == cyls[k - 1]
                   p == Add(<<cylinder.x, cylinder.y>>,
                            Along(cylinder.radius + SuperEmergencyMargin * Km, perpendicular))
               IN <<p[1], p[2], first[k][3]>>]

\* one segment of the first emergency trajectory, with its controlled descent
EmergencySegment(wps, i) ==
    LET wp_start == wps[i]
        wp_end == wps[i + 1]
        segment_distance == Norm3(<<wp_end[1] - wp_start[1], wp_end[2] - wp_start[2],
                                    wp_end[3] - wp_start[3]>>)
        n_segment_points == Max(EmergencyMinPts, (segment_distance * PtsPerKm) \div Km)
        altitude_start == wp_start[3]
        altitude_end == wp_end[3]
        altitude_diff == altitude_end - altitude_start
        \* actual_descent_rate / max_descent_rate, scaled by Unit
        rate == Min(Rnd(Abs(altitude_diff) * 10 * Unit, segment_distance), Unit)
        plateau == altitude_start - Rnd(Abs(altitude_diff) * rate, Unit)
    IN [j \in 1..n_segment_points |->
          LET t == Frac(j - 1, n_segment_points)
              xy == Lerp3(wp_start, wp_end, t)
              z0 == IF altitude_diff < 0
                    THEN IF t < 800
                         THEN altitude_start
                              - Rnd(Rnd(t * 10, 8) * Rnd(Abs(altitude_diff) * rate, Unit), Unit)
                         ELSE plateau + Rnd((t - 800) * 5 * (altitude_end - plateau), Unit)
                    ELSE altitude_start + Rnd(t * altitude_diff, Unit)
              curve == IF i > 1 /\ i < Len(wps) - 1 /\ j > 1 /\ j < n_segment_points
                       THEN Rnd((Km \div 20) * SinPi(t), Unit)
                       ELSE 0
          IN Sample(xy[1], xy[2], z0 + curve, "emergency")]

RECURSIVE EmergencyFrom(_, _)
EmergencyFrom(wps, i) ==
    IF i > Len(wps) - 1 THEN <<>>
    ELSE EmergencySegment(wps, i) \o EmergencyFrom(wps, i + 1)

\* the first emergency trajectory (8 km margin)
EmergencyTrajectory(start_pos, faf_pos, cyls) ==
    EmergencyFrom(EmergencyWaypoints(start_pos, faf_pos, cyls), 1)

RECURSIVE LinearFrom(_, _, _, _)
\* straight segments through 3D waypoints, each with its own sample count
LinearFrom(wps, i, min_pts, density) ==
    IF i > Len(wps) - 1 THEN <<>>
    ELSE LET d == Norm3(<<wps[i + 1][1] - wps[i][1], wps[i + 1][2] - wps[i][2],
                          wps[i + 1][3] - wps[i][3]>>)
         IN LinearSegment(wps[i], wps[i + 1], Max(min_pts, (d * density) \div Km), "emergency")
            \o LinearFrom(wps, i + 1, min_pts, density)

\* the second emergency trajectory (15 km margin)
SuperEmergencyTrajectory(start_pos, faf_pos, cyls) ==
    LinearFrom(SuperEmergencyWaypoints(start_pos, faf_pos, cyls), 1, EmergencyMinPts, PtsPerKm)

-----------------------------------------------------------------------------
(* _calculate_multi_waypoint_avoidance *)

RECURSIVE SumXY(_, _)
SumXY(cyls, k) ==
    IF k = 0 THEN <<0, 0>> ELSE Add(SumXY(cyls, k - 1), <<cyls[k].x, cyls[k].y>>)

RECURSIVE MaxOver(_, _, _)
MaxOver(f(_), n, acc) == IF n = 0 THEN acc ELSE MaxOver(f, n - 1, Max(acc, f(n)))

\* waypoints of the external bypass for the given extra margin (km)
MultiWaypoints(start_pos, faf_pos, cyls, extra_margin) ==
    LET n == Len(cyls)
        sum == SumXY(cyls, n)
        mean_center == <<Rnd(sum[1], n), Rnd(sum[2], n)>>
        Radius(c) == cyls[c].radius + UltraSafetyMargin * Km
        max_radius == MaxOver(Radius, n, 0)
        Reach(c) == Norm(Sub(<<cyls[c].x, cyls[c].y>>, mean_center)) + max_radius
        max_distance_from_center == MaxOver(Reach, n, 0)
        bypass_radius == max_distance_from_center + extra_margin * Km
        direction_to_faf == Sub(XY(faf_pos), XY(start_pos))
        perp0 == Perp(Normalize(direction_to_faf))
        side == Dot(Sub(mean_center, XY(start_pos)), perp0)
        perp_direction == IF side > 0 THEN <<-perp0[1], -perp0[2]>> ELSE perp0
        offset == Along(bypass_radius, perp_direction)
        Way(i) == <<start_pos[1] + Rnd(i * direction_to_faf[1], 4) + offset[1],
                    start_pos[2] + Rnd(i * direction_to_faf[2], 4) + offset[2],
                    start_pos[3] + Rnd(i * (faf_pos[3] - start_pos[3]), 4)>>
    IN <<start_pos, Way(1), Way(2), Way(3), faf_pos>>

\* multi_trajectory for the given extra margin (km)
MultiTrajectory(start_pos, faf_pos, cyls, extra_margin) ==
    LinearFrom(MultiWaypoints(start_pos, faf_pos, cyls, extra_margin), 1, MultiMinPts, 2 * PtsPerKm)

-----------------------------------------------------------------------------
(* Trigonometry: angles in hundredths of a degree, values scaled by Unit *)

HalfTurn == 18000

\* sin of an angle in [0, HalfTurn]
SinHalf(x) ==
    LET q == Rnd(x * (HalfTurn - x), 10000)
    IN Rnd(4 * q * Unit, 40500 - q)

\* np.sin
Sin(angle) ==
    LET x == angle % (2 * HalfTurn)
    IN IF x <= HalfTurn THEN SinHalf(x) ELSE -SinHalf(x - HalfTurn)

\* np.cos
Cos(angle) == Sin(angle + HalfTurn \div 2)

\* np.arccos of a value in [-Unit, Unit]
ArcCos(c) ==
    LET Quarter(v) == 18 * Sqrt(((Unit - v) * Unit * Unit) \div (4 * Unit + v))
    IN IF c >= 0 THEN Quarter(c) ELSE HalfTurn - Quarter(-c)

-----------------------------------------------------------------------------
(* Tangent-arc mode (calculate_trajectory_with_turn) *)

\* Aircraft.calculate_min_turn_radius: (v / 3.6)^2 / (9.81 * tan(bank)) / 1000 km
MinTurnRadius(ac) ==
    Rnd(ac.speed * ac.speed * 1000, Rnd(127138 * TanBank(ac.type), 1000))

\* approach_direction of calculate_trajectory_with_turn: from the airport toward the FAF
ApproachDirection(environment) ==
    Normalize(Sub(XY(environment.faf_position), XY(environment.airport_position)))

\* _calculate_tangent_intercept; found = FALSE stands for (None, None, None)
TangentIntercept(start_2d, current_dir, residue, approach_dir, airport_2d, faf_2d, radius) ==
    LET exact == Cross(current_dir, approach_dir)
        cross == IF exact # 0 THEN exact ELSE Cross(residue, approach_dir)
        turn_direction == IF cross > 0 THEN 1 ELSE -1
        perp_current == <<-current_dir[2] * turn_direction, current_dir[1] * turn_direction>>
        turn_center == Add(start_2d, Along(radius, perp_current))
        vec_to_center == Sub(turn_center, airport_2d)
        \* -b / 2 and the discriminant / 4 of the quadratic, a = 1
        half_b == Rnd(Dot(vec_to_center, approach_dir), Unit)
        c == Dot(vec_to_center, vec_to_center) - radius * radius
        quarter_disc == half_b * half_b - c
        root == Sqrt(quarter_disc)
        t1 == half_b + root
        t2 == half_b - root
        point1 == Add(airport_2d, Along(t1, approach_dir))
        point2 == Add(airport_2d, Along(t2, approach_dir))
        dist1_to_faf == Norm(Sub(point1, faf_2d))
        dist2_to_faf == Norm(Sub(point2, faf_2d))
        \* np.linalg.norm(faf_pos - airport_pos) * 1.5
        reach == Rnd(Norm(Sub(faf_2d, airport_2d)) * 3, 2)
        intercept_point ==
            IF t1 > 0 /\ dist1_to_faf < reach THEN point1
            ELSE IF t2 > 0 /\ dist2_to_faf < reach THEN point2
            ELSE IF dist1_to_faf < dist2_to_faf THEN point1 ELSE point2
        vec_start == Sub(start_2d, turn_center)
        vec_end == Sub(intercept_point, turn_center)
        cos_angle == Clip(Rnd(Dot(vec_start, vec_end) * Unit, Norm(vec_start) * Norm(vec_end)),
                          -Unit, Unit)
        unsigned == ArcCos(cos_angle)
        cross_check == Cross(vec_start, vec_end)
    IN IF quarter_disc < 0 THEN [found |-> FALSE]
       ELSE [found |-> TRUE,
             intercept_point |-> intercept_point,
             turn_center |-> turn_center,
             turn_angle |-> IF cross_check * turn_direction < 0 THEN -unsigned ELSE unsigned]

\* scaled-down point counts of the arc (the source: one point per 2 degrees, 10 at least)
ArcMinPts == 4
ArcDegreesPerPt == 30

\* _create_arc_trajectory
CreateArcTrajectory(start_2d, center, angle, radius, altitude) ==
    LET n_points == Max(Abs(angle) \div (100 * ArcDegreesPerPt), ArcMinPts)
        \* [cos, sin] of angle_start = arctan2(vec_to_start[1], vec_to_start[0])
        unit_start == Normalize(Sub(start_2d, center))
    IN [k \in 1..n_points |->
          LET turned == Rnd((k - 1) * angle, n_points - 1)
              cos_k == Rnd(unit_start[1] * Cos(turned) - unit_start[2] * Sin(turned), Unit)
              sin_k == Rnd(unit_start[2] * Cos(turned) + unit_start[1] * Sin(turned), Unit)
          IN Sample(center[1] + Rnd(radius * cos_k, Unit),
                    center[2] + Rnd(radius * sin_k, Unit),
                    altitude, "arc")]

\* the float that 0.0 / 0.0 yields
NotANumber == "nan"

\* scaled-down point counts of the approach (the source uses 50 resp. 500 points at least)
ApproachMinPts == 6
DescentMinPts == 8

\* _calculate_approach_with_descent_and_speed: [trajectory, speed_profile]
ApproachWithDescentAndSpeed(ac, start_pos, target_pos, direction, target_speed) ==
    LET horizontal_distance == Norm(Sub(XY(target_pos), XY(start_pos)))
        altitude_diff == target_pos[3] - start_pos[3]
        initial_speed == ac.speed
    IN IF altitude_diff >= 0
       THEN LET n_points == Max((horizontal_distance * PtsPerKm) \div (2 * Km), ApproachMinPts)
            IN [trajectory |-> LinearSegment(start_pos, target_pos, n_points, "approach"),
                speed_profile |-> [i \in 1..n_points |->
                    initial_speed + Rnd(Frac(i - 1, n_points) * (target_speed - initial_speed),
                                        Unit)]]
       ELSE LET min_descent_distance == Rnd(Abs(altitude_diff) * TanScale, TanDescent(ac.type))
                transition_distance == Max(Min(Rnd(min_descent_distance * 15, 100), 3 * Km), 1 * Km)
                level_distance == IF horizontal_distance < min_descent_distance THEN 0
                                  ELSE Max(0, horizontal_distance - min_descent_distance
                                              - transition_distance)
                total_points == Max(DescentMinPts, (horizontal_distance * PtsPerKm) \div Km)
                decel_start_distance == Rnd(horizontal_distance * 33, 100)
                Altitude(current_distance) ==
                    IF current_distance < level_distance
                    THEN [z |-> start_pos[3], ph |-> "level"]
                    ELSE IF current_distance < level_distance + transition_distance
                    THEN LET progress == Rnd((current_distance - level_distance) * Unit,
                                             transition_distance)
                             smooth_factor == Rnd(Unit - Cos(Rnd(progress * HalfTurn, Unit)), 2)
                         IN [z |-> start_pos[3]
                                   + Rnd(Rnd(smooth_factor * altitude_diff, Unit)
                                         * transition_distance, min_descent_distance),
                             ph |-> "transition"]
                    ELSE LET descent_distance == current_distance - level_distance
                                                 - transition_distance
                         IN [z |-> start_pos[3]
                                   + Rnd(altitude_diff * (transition_distance + descent_distance),
                                         min_descent_distance),
                             ph |-> "descent"]
                Speed(current_distance) ==
                    IF current_distance < decel_start_distance THEN initial_speed
                    ELSE IF horizontal_distance = decel_start_distance THEN NotANumber
                    ELSE LET decel_progress == Rnd((current_distance - decel_start_distance) * Unit,
                                                   horizontal_distance - decel_start_distance)
                             smooth_decel == Rnd(Unit + Cos(Rnd((Unit - decel_progress) * HalfTurn,
                                                                Unit)), 2)
                         IN target_speed + Rnd(smooth_decel * (initial_speed - target_speed), Unit)
            IN [trajectory |-> [i \in 1..total_points |->
                    LET current_distance == Rnd(Frac(i - 1, total_points) * horizontal_distance,
                                                Unit)
                        xy == Add(XY(start_pos), Along(current_distance, direction))
                        alt == Altitude(current_distance)
                    IN Sample(xy[1], xy[2], alt.z, alt.ph)],
                speed_profile |-> [i \in 1..total_points |->
                    Speed(Rnd(Frac(i - 1, total_points) * horizontal_distance, Unit))]]

-----------------------------------------------------------------------------
(* Flight parameters (_calculate_parameters, _calculate_parameters_with_speed_profile) *)
(* Times are in hundredths of a second, angles in hundredths of a degree. *)

\* vertical_speed of _vertical_trajectory, km/h
VerticalSpeed == 10

\* a dict without keys
EmptyDict == [key \in {} |-> 0]

\* np.linalg.norm(trajectory[i] - trajectory[i-1]), i >= 2
StepLength(traj, i) ==
    Norm3(<<traj[i].x - traj[i - 1].x, traj[i].y - traj[i - 1].y, traj[i].z - traj[i - 1].z>>)

RECURSIVE LengthBetween(_, _, _)
\* the summed length of the steps lo..hi (the sum is split in halves)
LengthBetween(traj, lo, hi) ==
    IF lo > hi THEN 0
    ELSE IF lo = hi THEN StepLength(traj, lo)
    ELSE LET mid == (lo + hi) \div 2
         IN LengthBetween(traj, lo, mid) + LengthBetween(traj, mid + 1, hi)

\* distances[i]: the cumulative length up to sample i
Distances(traj, i) == LengthBetween(traj, 2, i)

\* slope_array[i] for i >= 2: degrees(arctan(dz / dx)), or 90, -90, 0 on a vertical step
SlopeAt(traj, i) ==
    LET dz == traj[i].z - traj[i - 1].z
        dx == Norm(<<traj[i].x - traj[i - 1].x, traj[i].y - traj[i - 1].y>>)
    IN IF dx > 0
       THEN LET angle == ArcCos(Rnd(dx * Unit, Sqrt(dx * dx + dz * dz)))
            IN IF dz >= 0 THEN angle ELSE -angle
       ELSE IF dz > 0 THEN HalfTurn \div 2
       ELSE IF dz < 0 THEN -(HalfTurn \div 2)
       ELSE 0

\* heading_array[i] for i >= 2: degrees(arctan2(dx, dy)) normalised to [0, 360)
HeadingAt(traj, i) ==
    LET dx == traj[i].x - traj[i - 1].x
        dy == traj[i].y - traj[i - 1].y
    IN IF dx = 0 /\ dy = 0 THEN 0
       ELSE LET angle == ArcCos(Rnd(dy * Unit, Norm(<<dx, dy>>)))
            IN IF dx >= 0 THEN angle ELSE (2 * HalfTurn - angle) % (2 * HalfTurn)

\* slope_array, heading_array: the first entry is a copy of the second
SlopeArray(traj) ==
    [i \in 1..Len(traj) |-> IF Len(traj) = 1 THEN 0 ELSE SlopeAt(traj, Max(i, 2))]

HeadingArray(traj) ==
    [i \in 1..Len(traj) |-> IF Len(traj) = 1 THEN 0 ELSE HeadingAt(traj, Max(i, 2))]

\* faulty variant: the heading difference is used as it is, without the 0/360 correction
TurnRateAtUncorrected(heading_array, time_array, i) ==
    LET delta_time == time_array[i] - time_array[i - 1]
        delta_heading == heading_array[i] - heading_array[i - 1]
    IN IF delta_time > 0
       THEN (IF delta_heading >= 0 THEN Rnd(delta_heading * 100, delta_time)
                                   ELSE -Rnd(-delta_heading * 100, delta_time))
       ELSE 0

\* turn_rate_array[i] for i >= 2, hundredths of a degree per second
TurnRateAt(heading_array, time_array, i) ==
    LET delta_time == time_array[i] - time_array[i - 1]
        raw == heading_array[i] - heading_array[i - 1]
        delta_heading == IF raw > HalfTurn THEN raw - 2 * HalfTurn
                         ELSE IF raw < -HalfTurn THEN raw + 2 * HalfTurn
                         ELSE raw
    IN IF delta_time > 0
       THEN (IF delta_heading >= 0 THEN Rnd(delta_heading * 100, delta_time)
                                   ELSE -Rnd(-delta_heading * 100, delta_time))
       ELSE 0

\* turn_rate_array from the heading and time arrays
TurnRates(n, heading_array, time_array) ==
    [i \in 1..n |-> IF n = 1 THEN 0 ELSE TurnRateAt(heading_array, time_array, Max(i, 2))]

\* np.linspace(0, flight_time_hours * 3600, n_points), or zeros
ConstantSpeedTimes(n_points, total_distance, flight_time) ==
    [i \in 1..n_points |->
        IF total_distance > 0 THEN Rnd((i - 1) * flight_time, n_points - 1) ELSE 0]

\* the dict of the parameters, from the arrays
ParametersDict(traj, time_array, speed_array, heading_array, total_distance, flight_time) ==
    [time |-> time_array,
     altitude |-> [i \in 1..Len(traj) |-> traj[i].z],
     slope |-> SlopeArray(traj),
     speed |-> speed_array,
     heading |-> heading_array,
     turn_rate |-> TurnRates(Len(traj), heading_array, time_array),
     distance |-> total_distance,
     flight_time |-> flight_time,
     n_points |-> Len(traj)]

\* flight_time_hours of _calculate_parameters, as hundredths of a second
FlightTime(total_distance, speed) ==
    IF total_distance > 0 THEN Rnd(total_distance * 3600, speed) ELSE 0

\* faulty variant: the stored speeds are in m/s while the times come from km/h
CalculateParametersSpeedInMetresPerSecond(traj, speed) ==
    CHOOSE parameters_dict \in
        {ParametersDict(traj, ConstantSpeedTimes(Len(traj), d, FlightTime(d, speed)),
                        [i \in 1..Len(traj) |-> Rnd(speed * 10, 36)], h, d,
                        FlightTime(d, speed)) :
            d \in {Distances(traj, Len(traj))}, h \in {HeadingArray(traj)}} : TRUE

\* _calculate_parameters: constant speed
CalculateParameters(traj, speed) ==
    CHOOSE parameters_dict \in
        {ParametersDict(traj, ConstantSpeedTimes(Len(traj), d, FlightTime(d, speed)),
                        [i \in 1..Len(traj) |-> speed], h, d, FlightTime(d, speed)) :
            d \in {Distances(traj, Len(traj))}, h \in {HeadingArray(traj)}} : TRUE

\* full_speed_profile: the initial speed on the arc, then the approach profile
FullSpeedProfile(n_points, initial_speed, arc_length, speed_profile) ==
    [i \in 1..n_points |-> IF i <= arc_length THEN initial_speed ELSE speed_profile[i - arc_length]]

\* whether a float is the NaN
IsNaN(v) == ToString(v) = ToString(NotANumber)

\* avg_speed > 0 at step i: a comparison that a NaN speed fails
AvgSpeedPositive(speeds, i) ==
    /\ ~IsNaN(speeds[i])
    /\ ~IsNaN(speeds[i - 1])
    /\ speeds[i] + speeds[i - 1] > 0

RECURSIVE TimesBetween(_, _, _, _, _)
\* time_array[lo..hi], given the entry before lo (the loop is split in halves): a step adds
\* its time to the entry before it when its mean speed is > 0, and leaves its entry at 0
\* otherwise
TimesBetween(traj, speeds, lo, hi, before) ==
    IF lo > hi THEN <<>>
    ELSE IF lo = hi
    THEN <<IF AvgSpeedPositive(speeds, lo)
           THEN before + Rnd(StepLength(traj, lo) * 7200, speeds[lo] + speeds[lo - 1])
           ELSE 0>>
    ELSE LET mid == (lo + hi) \div 2
             left == TimesBetween(traj, speeds, lo, mid, before)
         IN left \o TimesBetween(traj, speeds, mid + 1, hi, left[Len(left)])

\* time_array[1..i] with a varying speed
ProfileTimes(traj, speeds, i) == <<0>> \o TimesBetween(traj, speeds, 2, i, 0)

\* flight_time_hours of _calculate_parameters_with_speed_profile, as hundredths of a second
ProfileFlightTime(time_array) ==
    IF time_array[Len(time_array)] > 0 THEN time_array[Len(time_array)] ELSE 0

\* faulty variant: the speed array holds the approach profile only
CalculateParametersApproachSpeedsOnly(traj, initial_speed, arc_length, speed_profile) ==
    CHOOSE parameters_dict \in
        {ParametersDict(traj, t, speed_profile, h, Distances(traj, Len(traj)),
                        ProfileFlightTime(t)) :
            t \in {ProfileTimes(traj, FullSpeedProfile(Len(traj), initial_speed, arc_length,
                                                       speed_profile), Len(traj))},
            h \in {HeadingArray(traj)}} : TRUE

\* _calculate_parameters_with_speed_profile
CalculateParametersWithSpeedProfile(traj, initial_speed, arc_length, speed_profile) ==
    CHOOSE parameters_dict \in
        {ParametersDict(traj, t, FullSpeedProfile(Len(traj), initial_speed, arc_length,
                                                  speed_profile),
                        h, Distances(traj, Len(traj)), ProfileFlightTime(t)) :
            t \in {ProfileTimes(traj, FullSpeedProfile(Len(traj), initial_speed, arc_length,
                                                       speed_profile), Len(traj))},
            h \in {HeadingArray(traj)}} : TRUE

-----------------------------------------------------------------------------
(* Requests *)

\* no altitude profile computed yet
NoProfile == [limited |-> FALSE, total |-> 0, min_descent |-> 0, transition0 |-> 0,
              level |-> 0, transition |-> 0, descent |-> 0]

Pending == [status |-> "pending", trajectory |-> <<>>]
Returned(traj) == [status |-> "trajectory", trajectory |-> traj]
\* return None, {}
NoSolution == [status |-> "none", trajectory |-> <<>>]
Raised(what) == [status |-> "raised", trajectory |-> <<>>, error |-> what]

Built(kind, margin) == [event |-> "built", kind |-> kind, margin |-> margin, collision |-> FALSE]
Validated(kind, margin, collision) ==
    [event |-> "validated", kind |-> kind, margin |-> margin, collision |-> collision]

Cylinder(x, y, radius, height, has_center) ==
    [x |-> x, y |-> y, radius |-> radius, height |-> height, has_center |-> has_center]

Modes == {"progressive", "tangent"}

Aircraft(position, heading, type) ==
    [position |-> position, heading |-> heading, speed |-> 250, type |-> type]

\* far from the FAF, close to it, beside the approach axis (high and at FAF altitude),
\* and over the FAF
Aircrafts ==
    {Aircraft(p, h, "commercial") :
        p \in {<<0, 0, 300>>, <<1000, 100, 300>>, <<1500, 100, 100>>, <<2000, 0, 300>>},
        h \in {0, 45, 90}}
    \cup {Aircraft(<<0, 0, 300>>, 180, "light"), Aircraft(<<2500, 100, 300>>, 0, "cargo")}

\* the runway along the x axis, the FAF 10 km before the airport
RunwayEnvironment == [airport_position |-> <<3000, 0, 0>>, faf_position |-> <<2000, 0, 100>>]

\* an airport closer than 0.1 km to the FAF
DegenerateEnvironment == [airport_position |-> <<2005, 0, 0>>, faf_position |-> <<2000, 0, 100>>]

\* obstacle lists: as main.py builds them (no 'center' key) and with the 'center' key
CylinderLists ==
    {<<>>,
     <<Cylinder(1000, 0, 200, 400, FALSE)>>,
     <<Cylinder(1700, 0, 100, 400, FALSE)>>,
     <<Cylinder(1100, 500, 200, 400, FALSE)>>,
     <<Cylinder(900, 500, 200, 400, FALSE), Cylinder(500, 200, 200, 400, FALSE)>>,
     <<Cylinder(900, 500, 200, 400, TRUE), Cylinder(700, 200, 100, 400, TRUE)>>,
     <<Cylinder(300, 0, 100, 400, FALSE)>>,
     <<Cylinder(300, 0, 100, 400, TRUE)>>,
     <<Cylinder(300, 300, 100, 400, TRUE)>>,
     <<Cylinder(300, 300, 400, 400, TRUE)>>,
     <<Cylinder(0, 0, 100, 400, TRUE)>>}

\* on the approach axis and heading along it: far from the FAF, and 1 km before it, where
\* the initial straight flight ends on the FAF
AxisAircrafts ==
    {Aircraft(<<0, 0, 300>>, 90, "commercial"), Aircraft(<<1900, 0, 300>>, 90, "commercial")}

\* obstacles about the approach axis: beside the FAF, below the flight altitude (by more
\* and by less than 0.5 km), and beyond the FAF
AxisCylinderLists ==
    {<<Cylinder(2000, 120, 100, 400, FALSE)>>,
     <<Cylinder(1000, 0, 200, 200, FALSE), Cylinder(1000, 0, 200, 260, FALSE)>>,
     <<Cylinder(2400, 0, 100, 400, FALSE)>>}

Request(m, ac, e, cyls) == [mode |-> m, aircraft |-> ac, env |-> e, cylinders |-> cyls]

Requests ==
    {Request(m, ac, RunwayEnvironment, cyls) :
        m \in Modes, ac \in Aircrafts, cyls \in CylinderLists}
    \cup {Request(m, Aircraft(<<0, 0, 300>>, h, "commercial"), DegenerateEnvironment, cyls) :
            m \in Modes, h \in {0, 90}, cyls \in {<<>>, <<Cylinder(1000, 0, 200, 400, FALSE)>>}}
    \cup {Request(m, ac, RunwayEnvironment, cyls) :
            m \in Modes, ac \in AxisAircrafts, cyls \in AxisCylinderLists}

-----------------------------------------------------------------------------
(* The planning call *)

Init ==
    /\ \E r \in Requests :
          /\ mode = r.mode
          /\ aircraft = r.aircraft
          /\ env = r.env
          /\ cylinders = r.cylinders
    /\ pc = "call"
    /\ profile = NoProfile
    /\ waypoints = <<>>
    /\ trajectory = <<>>
    /\ waypoints_retry = <<>>
    /\ trajectory_retry = <<>>
    /\ attempt = 0
    /\ log = <<>>
    /\ result = Pending
    /\ parameters = EmptyDict

inputs == <<mode, aircraft, env, cylinders>>
plan == <<waypoints, trajectory>>
retry == <<waypoints_retry, trajectory_retry, attempt>>

\* the retry loop: for attempt in range(5)
MaxAttempts == 5

\* faulty variant: the ladder starts one rung too high
SafetyFactorOneBased(k) == 2 * Km + (k + 1) * (Km \div 2)

\* safety_factor = 2.0 + attempt * 0.5, km
SafetyFactor(k) == 2 * Km + k * (Km \div 2)

\* calculate_trajectory has been entered, directly or as the fallback of the tangent mode
InCalculateTrajectory == (pc = "call" /\ mode = "progressive") \/ pc = "calculate"

\* calculate_trajectory, airport and FAF closer than 0.1 km: straight line
StraightLineFallback ==
    /\ InCalculateTrajectory
    /\ Norm(Sub(XY(env.airport_position), XY(env.faf_position))) < Km \div 10
    /\ \E simple \in {SimpleTrajectory(aircraft.position, env.faf_position)} :
          /\ result' = Returned(simple)
          /\ parameters' = CalculateParameters(simple, aircraft.speed)
    /\ pc' = "done"
    /\ UNCHANGED <<inputs, profile, plan, retry, log>>

\* calculate_trajectory, already at the FAF horizontally: vertical trajectory
VerticalFallback ==
    /\ InCalculateTrajectory
    /\ Norm(Sub(XY(env.airport_position), XY(env.faf_position))) >= Km \div 10
    /\ Norm(Sub(XY(env.faf_position), XY(aircraft.position))) < Km \div 10
    /\ \E vertical \in {VerticalTrajectory(aircraft.position, env.faf_position)} :
          /\ result' = Returned(vertical)
          /\ parameters' = CalculateParameters(vertical, VerticalSpeed)
    /\ pc' = "done"
    /\ UNCHANGED <<inputs, profile, plan, retry, log>>

\* faulty variant: the initial plan goes to the return without validation
PlanInitialUnvalidated ==
    /\ InCalculateTrajectory
    /\ Norm(Sub(XY(env.airport_position), XY(env.faf_position))) >= Km \div 10
    /\ Norm(Sub(XY(env.faf_position), XY(aircraft.position))) >= Km \div 10
    /\ LET wps == InitialWaypoints(aircraft.position, env.faf_position,
                                   HeadingDir(aircraft.heading), cylinders)
       IN /\ waypoints' = wps
          /\ trajectory' = InitialPlan(aircraft, env, wps)
    /\ profile' = AltitudePhases(aircraft.type, aircraft.position, env.faf_position)
    /\ log' = Append(log, Built("initial", DefaultSafetyMargin))
    /\ pc' = "parameters"
    /\ UNCHANGED <<inputs, retry, result, parameters>>

\* _build_trajectory_with_runway_alignment up to the validation
PlanInitial ==
    /\ InCalculateTrajectory
    /\ Norm(Sub(XY(env.airport_position), XY(env.faf_position))) >= Km \div 10
    /\ Norm(Sub(XY(env.faf_position), XY(aircraft.position))) >= Km \div 10
    /\ LET wps == InitialWaypoints(aircraft.position, env.faf_position,
                                   HeadingDir(aircraft.heading), cylinders)
       IN /\ waypoints' = wps
          /\ trajectory' = InitialPlan(aircraft, env, wps)
    /\ profile' = AltitudePhases(aircraft.type, aircraft.position, env.faf_position)
    /\ log' = Append(log, Built("initial", DefaultSafetyMargin))
    /\ pc' = IF cylinders # <<>> THEN "validating" ELSE "parameters"
    /\ UNCHANGED <<inputs, retry, result, parameters>>

\* the validation of the initial plan
ValidateInitial ==
    /\ pc = "validating"
    /\ LET has_collision == CheckTrajectoryCollision(trajectory, cylinders)
       IN /\ log' = Append(log, Validated("initial", DefaultSafetyMargin, has_collision))
          /\ pc' = IF has_collision THEN "retrying" ELSE "parameters"
    /\ attempt' = 0
    /\ UNCHANGED <<inputs, profile, plan, waypoints_retry, trajectory_retry, result, parameters>>

\* one pass of the retry loop up to its validation
Rebuild ==
    /\ pc = "retrying"
    /\ LET safety_factor == SafetyFactor(attempt)
           wps == RetryWaypoints(aircraft.position, env.faf_position,
                                 HeadingDir(aircraft.heading), cylinders, safety_factor)
       IN /\ waypoints_retry' = wps
          /\ trajectory_retry' = RetryPlan(aircraft, env, wps)
          /\ log' = Append(log, Built("rebuild", safety_factor))
    /\ pc' = "revalidating"
    /\ UNCHANGED <<inputs, profile, plan, attempt, result, parameters>>

\* faulty variant: a collision-free rebuild does not break the loop
ValidateRebuildEscalating ==
    /\ pc = "revalidating"
    /\ LET has_collision_retry == CheckTrajectoryCollision(trajectory_retry, cylinders)
       IN /\ log' = Append(log, Validated("rebuild", SafetyFactor(attempt), has_collision_retry))
          /\ IF ~has_collision_retry
             THEN /\ trajectory' = trajectory_retry
                  /\ waypoints' = waypoints_retry
             ELSE UNCHANGED plan
          /\ attempt' = attempt + 1
          /\ pc' = IF attempt + 1 < MaxAttempts THEN "retrying"
                   ELSE IF has_collision_retry THEN "emergency" ELSE "parameters"
    /\ UNCHANGED <<inputs, profile, waypoints_retry, trajectory_retry, result, parameters>>

\* faulty variant: the loop makes a sixth pass
ValidateRebuildSixPasses ==
    /\ pc = "revalidating"
    /\ LET has_collision_retry == CheckTrajectoryCollision(trajectory_retry, cylinders)
       IN /\ log' = Append(log, Validated("rebuild", SafetyFactor(attempt), has_collision_retry))
          /\ IF ~has_collision_retry
             THEN /\ trajectory' = trajectory_retry
                  /\ waypoints' = waypoints_retry
                  /\ attempt' = attempt
                  /\ pc' = "parameters"
             ELSE /\ UNCHANGED plan
                  /\ attempt' = attempt + 1
                  /\ pc' = IF attempt + 1 < MaxAttempts + 1 THEN "retrying" ELSE "emergency"
    /\ UNCHANGED <<inputs, profile, waypoints_retry, trajectory_retry, result, parameters>>

\* the validation of a rebuild: break on success, next pass otherwise
ValidateRebuild ==
    /\ pc = "revalidating"
    /\ LET has_collision_retry == CheckTrajectoryCollision(trajectory_retry, cylinders)
       IN /\ log' = Append(log, Validated("rebuild", SafetyFactor(attempt), has_collision_retry))
          /\ IF ~has_collision_retry
             THEN /\ trajectory' = trajectory_retry
                  /\ waypoints' = waypoints_retry
                  /\ attempt' = attempt
                  /\ pc' = "parameters"
             ELSE /\ UNCHANGED plan
                  /\ attempt' = attempt + 1
                  /\ pc' = IF attempt + 1 < MaxAttempts THEN "retrying" ELSE "emergency"
    /\ UNCHANGED <<inputs, profile, waypoints_retry, trajectory_retry, result, parameters>>

\* _calculate_emergency_avoidance_trajectory on obstacle dicts without 'center'
EmergencyKeyError ==
    /\ pc = "emergency"
    /\ ~HasCenterKey(cylinders)
    /\ result' = Raised("KeyError")
    /\ pc' = "done"
    /\ UNCHANGED <<inputs, profile, plan, retry, log, parameters>>

\* an emergency strategy: build, validate, and go on to the next strategy on collision
EmergencyStep(kind, margin, candidate, next) ==
    /\ HasCenterKey(cylinders)
    /\ LET has_collision == CheckTrajectoryCollision(candidate, cylinders)
       IN /\ log' = log \o <<Built(kind, margin), Validated(kind, margin, has_collision)>>
          /\ IF has_collision
             THEN /\ pc' = next
                  /\ trajectory' = trajectory
                  /\ result' = IF next = "done" THEN NoSolution ELSE result
             ELSE /\ pc' = "parameters"
                  /\ trajectory' = candidate
                  /\ result' = result
    /\ UNCHANGED <<inputs, profile, waypoints, retry, parameters>>

Emergency ==
    /\ pc = "emergency"
    /\ EmergencyStep("emergency", EmergencyMargin * Km,
                     EmergencyTrajectory(aircraft.position, env.faf_position, cylinders),
                     "super_emergency")

\* faulty variant: the waypoint list holds the caller's arrays instead of copies, and the
\* in-place write of the first avoidance point lands one entry early, on the start position
SuperEmergencyWithoutCopies ==
    /\ pc = "super_emergency"
    /\ HasCenterKey(cylinders)
    /\ LET emergency_waypoints ==
               SuperEmergencyWaypoints(aircraft.position, env.faf_position, cylinders)
           candidate == SuperEmergencyTrajectory(aircraft.position, env.faf_position, cylinders)
           has_collision == CheckTrajectoryCollision(candidate, cylinders)
       IN /\ log' = log \o <<Built("super_emergency", SuperEmergencyMargin * Km),
                              Validated("super_emergency", SuperEmergencyMargin * Km,
                                        has_collision)>>
          /\ aircraft' = [aircraft EXCEPT !.position = <<emergency_waypoints[2][1],
                                                         emergency_waypoints[2][2], @[3]>>]
          /\ pc' = IF has_collision THEN "multi_waypoint" ELSE "parameters"
          /\ trajectory' = IF has_collision THEN trajectory ELSE candidate
    /\ UNCHANGED <<mode, env, cylinders, profile, waypoints, retry, result, parameters>>

SuperEmergency ==
    /\ pc = "super_emergency"
    /\ EmergencyStep("super_emergency", SuperEmergencyMargin * Km,
                     SuperEmergencyTrajectory(aircraft.position, env.faf_position, cylinders),
                     "multi_waypoint")

MultiWaypoint ==
    /\ pc = "multi_waypoint"
    /\ EmergencyStep("multi_waypoint", UltraSafetyMargin * Km,
                     MultiTrajectory(aircraft.position, env.faf_position, cylinders,
                                     UltraSafetyMargin),
                     "multi_final")

MultiWaypointFinal ==
    /\ pc = "multi_final"
    /\ EmergencyStep("multi_final", SuperUltraMargin * Km,
                     MultiTrajectory(aircraft.position, env.faf_position, cylinders,
                                     SuperUltraMargin),
                     "done")

\* the tail of _build_trajectory_with_runway_alignment: parameters and return
ReturnTrajectory ==
    /\ pc = "parameters"
    /\ result' = Returned(trajectory)
    /\ parameters' = CalculateParameters(trajectory, aircraft.speed)
    /\ pc' = "done"
    /\ UNCHANGED <<inputs, profile, plan, retry, log>>

\* the tangent interception calculate_trajectory_with_turn asks for
Tangent(ac, environment) ==
    TangentIntercept(XY(ac.position), HeadingDir(ac.heading), HeadingResidue(ac.heading),
                     ApproachDirection(environment), XY(environment.airport_position),
                     XY(environment.faf_position), MinTurnRadius(ac))

\* calculate_trajectory_with_turn
TangentTurn ==
    /\ pc = "call"
    /\ mode = "tangent"
    /\ LET start_pos == aircraft.position
           faf_pos == env.faf_position
           airport_pos == env.airport_position
           min_radius == MinTurnRadius(aircraft)
           approach_direction == ApproachDirection(env)
           tangent == Tangent(aircraft, env)
       IN IF ~tangent.found
          THEN /\ pc' = "calculate"
               /\ UNCHANGED <<trajectory, result, parameters>>
          ELSE LET arc_trajectory == CreateArcTrajectory(XY(start_pos), tangent.turn_center,
                                                         tangent.turn_angle, min_radius,
                                                         start_pos[3])
                   post_turn_pos == <<tangent.intercept_point[1], tangent.intercept_point[2],
                                      start_pos[3]>>
                   approach == ApproachWithDescentAndSpeed(aircraft, post_turn_pos, faf_pos,
                                                           approach_direction,
                                                           ApproachSpeed(aircraft.type))
               IN \E arc \in {arc_trajectory}, descent \in {approach} :
                     /\ trajectory' = arc \o descent.trajectory
                     /\ result' = Returned(arc \o descent.trajectory)
                     /\ \E combined \in {arc \o descent.trajectory} :
                           parameters' = CalculateParametersWithSpeedProfile(
                                             combined, aircraft.speed, Len(arc),
                                             descent.speed_profile)
                     /\ pc' = "done"
    /\ UNCHANGED <<inputs, profile, waypoints, retry, log>>

Next ==
    \/ StraightLineFallback
    \/ VerticalFallback
    \/ PlanInitial
    \/ ValidateInitial
    \/ Rebuild
    \/ ValidateRebuild
    \/ EmergencyKeyError
    \/ Emergency
    \/ SuperEmergency
    \/ MultiWaypoint
    \/ MultiWaypointFinal
    \/ ReturnTrajectory
    \/ TangentTurn

Spec == Init /\ [][Next]_vars

-----------------------------------------------------------------------------
(* Properties *)

Last(seq) == seq[Len(seq)]

IsBuilt(entry) == entry.event = "built"
IsValidated(entry) == entry.event = "validated"
IsRebuildBuilt(entry) == entry.event = "built" /\ entry.kind = "rebuild"

\* the candidates built so far, and the rebuilds among them, in order
Candidates == SelectSeq(log, IsBuilt)
Rebuilds == SelectSeq(log, IsRebuildBuilt)

\* the margins of the retry ladder, in 0.01 km
Ladder == <<200, 250, 300, 350, 400>>

\* the strategies after the ladder and their margins, in 0.01 km
EmergencyKinds == <<"emergency", "super_emergency", "multi_waypoint", "multi_final">>
EmergencyMargins == <<800, 1500, 2000, 4000>>

\* horizontal_distance(sample, obstacle centre) > radius or altitude > height
Clears(sample, cylinder) ==
    LET dx == sample.x - cylinder.x
        dy == sample.y - cylinder.y
    IN dx * dx + dy * dy > cylinder.radius * cylinder.radius \/ sample.z > cylinder.height

\* C1: every sample of a returned trajectory, in either mode and in the degenerate fallbacks,
\* is horizontally farther from every obstacle than its radius or is above its height.
C1_ReturnedTrajectoryClearsObstacles ==
    result.status = "trajectory" =>
        \A i \in 1..Len(result.trajectory) : \A c \in 1..Len(cylinders) :
            Clears(result.trajectory[i], cylinders[c])

\* C2: when the initial plan and all five rebuilds collide, the call ends with the
\* no-solution result: it neither raises nor returns a trajectory.
C2_ExhaustedLadderReturnsNoSolution ==
    (pc = "done" /\ attempt = MaxAttempts) => result = NoSolution

\* C3: the last sample of every returned trajectory, in either mode and whichever attempt
\* produced it, is the FAF position in x, y and altitude.
C3_LastSampleIsFaf ==
    result.status = "trajectory" => Pos(Last(result.trajectory)) = env.faf_position

\* C4: the first sample of every returned trajectory, in either mode, is the aircraft's
\* start position.
C4_FirstSampleIsStart ==
    result.status = "trajectory" => Pos(result.trajectory[1]) = aircraft.position

\* a trajectory of the tangent mode was returned: it starts with the turn arc
C4_Witness ==
    /\ result.status = "trajectory"
    /\ mode = "tangent"
    /\ result.trajectory[1].ph = "arc"
    /\ Len(result.trajectory) > ArcMinPts

\* two altitude units of rounding slack, as a rise over run scaled by TanScale
SlopeTolerance == 2 * TanScale

\* |dz| <= tan(max_descent_slope) * horizontal step, up to the rounding slack
WithinDescentSlope(type, previous, sample) ==
    Abs(sample.z - previous.z) * TanScale
        <= TanDescent(type) * Norm(Sub(XY(Pos(sample)), XY(Pos(previous)))) + SlopeTolerance

\* C5: in every returned trajectory, every sample of the linear-descent phase has a slope
\* from its predecessor within the aircraft's maximum descent slope, also when the
\* distance to the FAF is insufficient.
C5_DescentSlopeBounded ==
    result.status = "trajectory" =>
        \A i \in 2..Len(result.trajectory) :
            result.trajectory[i].ph = "descent" =>
                WithinDescentSlope(aircraft.type, result.trajectory[i - 1], result.trajectory[i])

\* C6: when the distance to the FAF is insufficient for transition plus slope-limited
\* descent, the altitude profile has no level flight and a transition of at most 30% of
\* the distance (to half a unit of rounding).
C6_LimitedDistanceProfile ==
    (profile # NoProfile /\ profile.min_descent + profile.transition0 >= profile.total) =>
        /\ profile.level = 0
        /\ 10 * profile.transition <= 3 * profile.total + 5

\* a plan whose transition was shortened because the distance is insufficient
C6_Witness ==
    /\ pc = "done"
    /\ profile # NoProfile
    /\ profile.min_descent + profile.transition0 >= profile.total
    /\ profile.transition < profile.transition0

\* C7: the k-th rebuild of a call uses the margin 2.0 + 0.5 (k - 1) km: the margins are
\* 2.0, 2.5, 3.0, 3.5, 4.0 in this order and no rebuild uses another one.
C7_RetryLadder ==
    /\ Len(Rebuilds) <= Len(Ladder)
    /\ \A k \in 1..Len(Rebuilds) : k <= Len(Ladder) => Rebuilds[k].margin = Ladder[k]

\* the fifth rebuild has been built
C7_Witness == Len(Rebuilds) = 5 /\ Rebuilds[5].margin = 400

\* C8: once a rebuild validates collision-free, no further candidate is built, and the
\* trajectory returned is that rebuild's sample sequence.
C8_StopsAtFirstValidRebuild ==
    \A i \in 1..Len(log) :
        (IsValidated(log[i]) /\ log[i].kind = "rebuild" /\ ~log[i].collision) =>
            /\ i = Len(log)
            /\ \A j \in 1..(i - 1) : IsValidated(log[j]) => log[j].collision
            /\ pc \in {"parameters", "done"}
            /\ trajectory = trajectory_retry
            /\ pc = "done" => result = Returned(trajectory_retry)

\* a rebuild after the first one validated and its samples were returned
C8_Witness ==
    /\ pc = "done"
    /\ attempt >= 1
    /\ log # <<>>
    /\ Last(log) = Validated("rebuild", SafetyFactor(attempt), FALSE)
    /\ result = Returned(trajectory_retry)

\* C9: with obstacles, the planner validates every candidate before it can be returned,
\* starts a rebuild only after the validation of the preceding candidate (the initial
\* plan or the preceding rebuild) reported a collision, and returns a collision-free
\* initial plan without any rebuild.
C9_PlanValidateRetry ==
    /\ (result.status = "trajectory" /\ log # <<>> /\ cylinders # <<>>) =>
          /\ IsValidated(Last(log))
          /\ ~Last(log).collision
          /\ ~CheckTrajectoryCollision(result.trajectory, cylinders)
    /\ \A i \in 1..Len(log) :
          IsRebuildBuilt(log[i]) =>
              /\ i > 2
              /\ IsValidated(log[i - 1])
              /\ log[i - 1].collision
              /\ log[i - 1].kind = (IF log[i].margin = Ladder[1] THEN "initial" ELSE "rebuild")
              /\ log[i - 1].margin < log[i].margin
    /\ (Len(log) >= 2 /\ log[2] = Validated("initial", DefaultSafetyMargin, FALSE)) =>
          /\ Len(log) = 2
          /\ pc = "done" => result = Returned(trajectory)

\* a plan was returned after its initial plan and first rebuild had collided
C9_Witness ==
    /\ result.status = "trajectory"
    /\ Len(log) >= 6
    /\ log[2] = Validated("initial", DefaultSafetyMargin, TRUE)
    /\ log[4] = Validated("rebuild", Ladder[1], TRUE)
    /\ ~Last(log).collision

-----------------------------------------------------------------------------
(* calculate_trajectory as a function of its arguments: what it gives to its caller *)

Outcome(res, params) == [result |-> res, parameters |-> params]

\* return trajectory, parameters at the end of _build_trajectory_with_runway_alignment
BuiltOutcome(ac, traj) == Outcome(Returned(traj), CalculateParameters(traj, ac.speed))

\* the emergency strategies, tried in order until one validates
EmergencyOutcome(ac, environment, cyls) ==
    LET start_pos == ac.position
        faf_pos == environment.faf_position
        emergency == EmergencyTrajectory(start_pos, faf_pos, cyls)
        super_emergency == SuperEmergencyTrajectory(start_pos, faf_pos, cyls)
        multi == MultiTrajectory(start_pos, faf_pos, cyls, UltraSafetyMargin)
        multi_final == MultiTrajectory(start_pos, faf_pos, cyls, SuperUltraMargin)
    IN IF ~HasCenterKey(cyls) THEN Outcome(Raised("KeyError"), EmptyDict)
       ELSE IF ~CheckTrajectoryCollision(emergency, cyls) THEN BuiltOutcome(ac, emergency)
       ELSE IF ~CheckTrajectoryCollision(super_emergency, cyls)
            THEN BuiltOutcome(ac, super_emergency)
       ELSE IF ~CheckTrajectoryCollision(multi, cyls) THEN BuiltOutcome(ac, multi)
       ELSE IF ~CheckTrajectoryCollision(multi_final, cyls) THEN BuiltOutcome(ac, multi_final)
       ELSE Outcome(NoSolution, EmptyDict)

RECURSIVE RetryOutcome(_, _, _, _)
\* the retry loop from pass k on
RetryOutcome(ac, environment, cyls, k) ==
    IF k >= MaxAttempts THEN EmergencyOutcome(ac, environment, cyls)
    ELSE LET wps == RetryWaypoints(ac.position, environment.faf_position,
                                   HeadingDir(ac.heading), cyls, SafetyFactor(k))
             trajectory_retry_k == RetryPlan(ac, environment, wps)
         IN IF ~CheckTrajectoryCollision(trajectory_retry_k, cyls)
            THEN BuiltOutcome(ac, trajectory_retry_k)
            ELSE RetryOutcome(ac, environment, cyls, k + 1)

\* calculate_trajectory(aircraft, cylinders)
CalculateTrajectory(ac, environment, cyls) ==
    LET start_pos == ac.position
        faf_pos == environment.faf_position
    IN IF Norm(Sub(XY(environment.airport_position), XY(faf_pos))) < Km \div 10
       THEN BuiltOutcome(ac, SimpleTrajectory(start_pos, faf_pos))
       ELSE IF Norm(Sub(XY(faf_pos), XY(start_pos))) < Km \div 10
       THEN LET vertical == VerticalTrajectory(start_pos, faf_pos)
            IN Outcome(Returned(vertical), CalculateParameters(vertical, VerticalSpeed))
       ELSE LET initial == InitialPlan(ac, environment,
                                       InitialWaypoints(start_pos, faf_pos,
                                                        HeadingDir(ac.heading), cyls))
            IN IF cyls = <<>> \/ ~CheckTrajectoryCollision(initial, cyls)
               THEN BuiltOutcome(ac, initial)
               ELSE RetryOutcome(ac, environment, cyls, 0)

\* the call is over
Done == pc = "done"

\* the tangent mode found no tangent interception (negative discriminant)
NoTangentSolution == mode = "tangent" /\ ~Tangent(aircraft, env).found

\* C11: when the tangent mode finds no tangent interception the call does not fail: it
\* gives its caller exactly the trajectory and parameters that calculate_trajectory gives
\* for the same aircraft and obstacles.
C11_NoTangentGivesProgressiveResult ==
    (Done /\ NoTangentSolution) =>
        /\ result.status # "raised"
        /\ Outcome(result, parameters) = CalculateTrajectory(aircraft, env, cylinders)

\* what holds of the fallback: it ends as calculate_trajectory ends, failures included
FallbackEndsAsCalculateTrajectory ==
    (Done /\ (mode = "progressive" \/ NoTangentSolution)) =>
        Outcome(result, parameters) = CalculateTrajectory(aircraft, env, cylinders)

\* airport and FAF are less than 0.1 km apart horizontally
RunwayAxisDegenerate == Norm(Sub(XY(env.airport_position), XY(env.faf_position))) < Km \div 10

\* the aircraft is less than 0.1 km from the FAF horizontally
AlreadyAtFaf == Norm(Sub(XY(env.faf_position), XY(aircraft.position))) < Km \div 10

\* C12: in both modes a call on degenerate geometry ends with the fallback trajectory and
\* never with an error: the straight line from start to FAF when airport and FAF are
\* less than 0.1 km apart, otherwise the vertical trajectory when the aircraft is less
\* than 0.1 km from the FAF horizontally.
C12_DegenerateGeometryFallsBack ==
    Done =>
        /\ RunwayAxisDegenerate =>
              result = Returned(SimpleTrajectory(aircraft.position, env.faf_position))
        /\ (~RunwayAxisDegenerate /\ AlreadyAtFaf) =>
              result = Returned(VerticalTrajectory(aircraft.position, env.faf_position))

\* C13: in every returned trajectory the cumulative arc length increases strictly: no two
\* consecutive samples are the same point, at the junctions of the segments included.
C13_ArcLengthStrictlyIncreasing ==
    result.status = "trajectory" =>
        \A i \in 2..Len(result.trajectory) :
            Pos(result.trajectory[i]) # Pos(result.trajectory[i - 1])

\* the attempt that produced the plan in hand: the kind of the last candidate built
ProducedBy == Last(Candidates).kind

\* the anchor waypoints of that attempt, as horizontal positions: waypoints_2d for the
\* initial plan and the rebuilds, the emergency waypoints for the emergency strategies
Anchors ==
    LET start_pos == aircraft.position
        faf_pos == env.faf_position
        Flat(wps) == [k \in 1..Len(wps) |-> XY(wps[k])]
    IN IF ProducedBy \in {"initial", "rebuild"} THEN waypoints
       ELSE IF ProducedBy = "emergency"
       THEN Flat(EmergencyWaypoints(start_pos, faf_pos, cylinders))
       ELSE IF ProducedBy = "super_emergency"
       THEN Flat(SuperEmergencyWaypoints(start_pos, faf_pos, cylinders))
       ELSE IF ProducedBy = "multi_waypoint"
       THEN Flat(MultiWaypoints(start_pos, faf_pos, cylinders, UltraSafetyMargin))
       ELSE Flat(MultiWaypoints(start_pos, faf_pos, cylinders, SuperUltraMargin))

RECURSIVE PassesThrough(_, _, _, _)
\* the samples from index `from` on pass through the anchors from the k-th on, in order
PassesThrough(traj, anchors, k, from) ==
    IF k > Len(anchors) THEN TRUE
    ELSE \E i \in from..Len(traj) :
            /\ XY(Pos(traj[i])) = anchors[k]
            /\ \A j \in from..(i - 1) : XY(Pos(traj[j])) # anchors[k]
            /\ PassesThrough(traj, anchors, k + 1, i)

\* C14: the horizontal path of a trajectory returned by the progressive planner passes
\* through every anchor waypoint of the attempt that produced it, in order: each anchor
\* is a sample, and the final blend toward the FAF displaces none.
C14_PassesThroughAnchors ==
    (result.status = "trajectory" /\ Candidates # <<>>) =>
        PassesThrough(result.trajectory, Anchors, 1, 1)

\* an initial plan with detour waypoints was blended toward the FAF and returned
C14_Witness ==
    /\ result.status = "trajectory"
    /\ Candidates # <<>>
    /\ ProducedBy = "initial"
    /\ Len(waypoints) > 2

\* C15: a progressive-mode request without obstacles whose start altitude is at or above
\* the FAF altitude succeeds, and the altitude of the returned samples never increases
\* along the trajectory.
C15_AltitudeNeverIncreases ==
    (Done /\ mode = "progressive" /\ cylinders = <<>>
          /\ aircraft.position[3] >= env.faf_position[3]) =>
        /\ result.status = "trajectory"
        /\ \A i \in 2..Len(result.trajectory) :
              result.trajectory[i].z <= result.trajectory[i - 1].z

\* the call returned the tangent-arc trajectory, whose parameters come from the speed profile
SpeedProfileMode == mode = "tangent" /\ Tangent(aircraft, env).found

\* the kinematic derivation applied again to the returned samples and the stored speeds:
\* the stored array as the whole speed profile, or its constant as the speed
Rederived ==
    IF SpeedProfileMode
    THEN CalculateParametersWithSpeedProfile(result.trajectory, parameters.speed[1], 0,
                                             parameters.speed)
    ELSE CalculateParameters(result.trajectory, parameters.speed[1])

ParameterArrays == {"time", "altitude", "slope", "heading", "turn_rate", "speed"}

\* C17: a successful result carries the arrays time, altitude, slope, heading, turn_rate
\* and speed with exactly one entry per sample of its trajectory (entry i for sample i),
\* and a total distance and a total flight time, on every return path.
C17_ArraysParallelToSamples ==
    (Done /\ result.status = "trajectory") =>
        /\ ParameterArrays \cup {"distance", "flight_time"} \subseteq DOMAIN parameters
        /\ \A key \in ParameterArrays :
              DOMAIN parameters[key] = 1..Len(result.trajectory)
        /\ \A i \in 1..Len(result.trajectory) :
              parameters.altitude[i] = result.trajectory[i].z

\* a tangent-arc result: samples of the arc followed by samples of the approach
C17_Witness ==
    /\ Done
    /\ result.status = "trajectory"
    /\ SpeedProfileMode
    /\ \E i \in 2..Len(result.trajectory) :
          result.trajectory[i - 1].ph = "arc" /\ result.trajectory[i].ph # "arc"

\* C18: a planning call leaves its inputs as they were, whatever its outcome: no step of
\* the call changes the aircraft's position, heading or speed, the airport and FAF
\* positions, or the obstacle list with each obstacle's centre, radius and height.
C18_InputsUnchanged ==
    [][/\ aircraft' = aircraft
       /\ env' = env
       /\ cylinders' = cylinders]_vars

\* a call ended after the super-emergency strategy, which rewrites its waypoints in place
C18_Witness ==
    /\ Done
    /\ \E k \in 1..Len(Candidates) : Candidates[k].kind = "super_emergency"

\* the safety margins of the attempts of the call, in the order they were tried
AttemptedMargins == [k \in 1..Len(Candidates) |-> Candidates[k].margin]

\* C19: when planning fails, the result given to the caller reports the failure together
\* with the safety margins that were attempted.
C19_FailureReportsAttemptedMargins ==
    (Done /\ result.status # "trajectory") =>
        /\ result = NoSolution
        /\ \E key \in DOMAIN parameters : parameters[key] = AttemptedMargins

\* the segment the planner gives to the waypoint inserter: from the end of the initial
\* straight flight to the FAF, at the start altitude
InserterStart ==
    InitialEndPoint(aircraft.position, env.faf_position, HeadingDir(aircraft.heading))
InserterEnd == XY(env.faf_position)
SegmentLength == Norm(Sub(InserterEnd, InserterStart))

\* the projection of an obstacle's centre on the segment, as a length from its start
\* (a segment without length is a point: the projection is that point)
CentreProjection(cylinder) ==
    IF SegmentLength = 0 THEN 0
    ELSE Rnd(Dot(Sub(<<cylinder.x, cylinder.y>>, InserterStart),
                 Normalize(Sub(InserterEnd, InserterStart))), Unit)

\* the perpendicular distance of an obstacle's centre to the segment
CentreDistance(cylinder) ==
    IF SegmentLength = 0 THEN Norm(Sub(<<cylinder.x, cylinder.y>>, InserterStart))
    ELSE Norm(Sub(<<cylinder.x, cylinder.y>>,
                  Add(InserterStart, Along(CentreProjection(cylinder),
                                           Normalize(Sub(InserterEnd, InserterStart))))))

\* the segment conflicts with the obstacle, at the flight altitude and with a margin
Conflicts(cylinder, margin) ==
    /\ aircraft.position[3] <= cylinder.height + Km \div 2
    /\ 0 <= CentreProjection(cylinder)
    /\ CentreProjection(cylinder) <= SegmentLength
    /\ CentreDistance(cylinder) < cylinder.radius + margin

\* the inserter has just run: for the initial plan, or for a rebuild with its margin
InserterRan == pc \in {"validating", "revalidating"}
InserterMargin == IF pc = "validating" THEN DefaultSafetyMargin ELSE SafetyFactor(attempt)
Inserted ==
    IF pc = "validating" THEN SubSeq(waypoints, 2, Len(waypoints) - 1)
    ELSE SubSeq(waypoints_retry, 2, Len(waypoints_retry) - 1)

\* what the inserter emits for one obstacle alone
InsertedFor(cylinder) ==
    IF pc = "validating"
    THEN CalculateAvoidanceWaypoints(InserterStart, InserterEnd, <<cylinder>>,
                                     aircraft.position[3])
    ELSE CalculateAvoidanceWaypointsWithMargin(InserterStart, InserterEnd, <<cylinder>>,
                                               aircraft.position[3], SafetyFactor(attempt))

\* two waypoints, entry then exit, for each conflicting obstacle and none for the others
TwoWaypointsPerConflict ==
    /\ \A c \in 1..Len(cylinders) :
          LET emitted == InsertedFor(cylinders[c])
          IN IF Conflicts(cylinders[c], InserterMargin)
             THEN /\ Len(emitted) = 2
                  /\ Dot(Sub(emitted[1], InserterStart), Sub(InserterEnd, InserterStart))
                       <= Dot(Sub(emitted[2], InserterStart), Sub(InserterEnd, InserterStart))
             ELSE emitted = <<>>
    /\ Len(Inserted) =
          2 * Cardinality({c \in 1..Len(cylinders) : Conflicts(cylinders[c], InserterMargin)})

\* C20 (as stated): the waypoint inserter emits two detour waypoints, entry then exit,
\* for an obstacle if and only if the altitude is at most its height + 0.5 km, its centre
\* projects inside the segment and lies closer to it than radius + margin; every other
\* obstacle contributes none.
C20_DetoursIffConflict == InserterRan => TwoWaypointsPerConflict

\* C20 (amended): the same for a segment of at least 0.01 km; a shorter segment gets no
\* detour waypoint whatever the obstacles.
C20_DetoursIffConflictOnSegment ==
    InserterRan =>
        IF SegmentLength >= 1 THEN TwoWaypointsPerConflict ELSE Inserted = <<>>

\* the inserter ran with a margin on a segment with one obstacle to go around and one
\* obstacle that needs no detour
C20_Witness ==
    /\ InserterRan
    /\ SegmentLength >= 1
    /\ \E c \in 1..Len(cylinders) : Conflicts(cylinders[c], InserterMargin)
    /\ \E c \in 1..Len(cylinders) : ~Conflicts(cylinders[c], InserterMargin)
    /\ Len(Inserted) = 2

\* the position of a waypoint along the inserter's segment (scaled by the segment length)
AlongSegment(point) == Dot(Sub(point, InserterStart), Sub(InserterEnd, InserterStart))

\* C21: when several obstacles conflict with the same segment, their detour waypoints are
\* in the anchor chain in increasing order of their position along the segment, whatever
\* the order of the obstacles in the list.
C21_DetoursInProjectionOrder ==
    InserterRan =>
        \A k \in 2..Len(Inserted) : AlongSegment(Inserted[k - 1]) <= AlongSegment(Inserted[k])


\* the distance of a waypoint to the centre of an obstacle
DistanceToCentre(point, cylinder) == Norm(Sub(point, <<cylinder.x, cylinder.y>>))

\* the along-segment position of the entry or of the exit of an obstacle was clamped
Clamped(cylinder, margin) ==
    LET approach_distance ==
            Max(Rnd((cylinder.radius + margin) * 8, 10),
                IF pc = "validating" THEN 1 * Km ELSE Rnd(margin, 2))
    IN \/ CentreProjection(cylinder) - approach_distance < 0
       \/ CentreProjection(cylinder) + approach_distance > SegmentLength

\* C22: every detour waypoint the inserter emits lies at a horizontal distance of at least
\* radius + margin from the centre of the obstacle it goes around, also when its position
\* along the segment was clamped to the start or the end of the segment.
C22_DetoursKeepTheMargin ==
    InserterRan =>
        \A c \in 1..Len(cylinders) :
            \A k \in 1..Len(InsertedFor(cylinders[c])) :
                DistanceToCentre(InsertedFor(cylinders[c])[k], cylinders[c])
                    >= cylinders[c].radius + InserterMargin

\* the inserter emitted the waypoints of an obstacle whose entry or exit was clamped
C22_Witness ==
    /\ InserterRan
    /\ SegmentLength >= 1
    /\ \E c \in 1..Len(cylinders) :
          /\ Conflicts(cylinders[c], InserterMargin)
          /\ Clamped(cylinders[c], InserterMargin)
          /\ Len(InsertedFor(cylinders[c])) = 2

\* the side of the inserter's segment line a point lies on: > 0 left, < 0 right, 0 on it
SideOfSegment(point) == Cross(Sub(InserterEnd, InserterStart), Sub(point, InserterStart))

\* C23: the entry and exit waypoints of a conflicting obstacle are displaced to the same
\* side of the segment, and whenever the obstacle centre is strictly off the segment line
\* the waypoints lie on the side opposite to the centre.
C23_DetourOppositeToCentre ==
    InserterRan =>
        \A c \in 1..Len(cylinders) :
            LET emitted == InsertedFor(cylinders[c])
                centre_side == SideOfSegment(<<cylinders[c].x, cylinders[c].y>>)
            IN emitted # <<>> =>
                  /\ \/ SideOfSegment(emitted[1]) > 0 /\ SideOfSegment(emitted[2]) > 0
                     \/ SideOfSegment(emitted[1]) < 0 /\ SideOfSegment(emitted[2]) < 0
                  /\ centre_side > 0 =>
                        SideOfSegment(emitted[1]) < 0 /\ SideOfSegment(emitted[2]) < 0
                  /\ centre_side < 0 =>
                        SideOfSegment(emitted[1]) > 0 /\ SideOfSegment(emitted[2]) > 0

\* the inserter went around an obstacle whose centre is left of the segment line and
\* around one whose centre is right of it
C23_Witness ==
    /\ InserterRan
    /\ \E c \in 1..Len(cylinders) :
          InsertedFor(cylinders[c]) # <<>> /\ SideOfSegment(<<cylinders[c].x, cylinders[c].y>>) > 0
    /\ \E c \in 1..Len(cylinders) :
          InsertedFor(cylinders[c]) # <<>> /\ SideOfSegment(<<cylinders[c].x, cylinders[c].y>>) < 0

\* the anchor chain the Bezier segments were just stitched on
Chain == IF pc = "validating" THEN waypoints ELSE waypoints_retry

\* the control points of segment k of that chain
ChainControlPoints(k) ==
    ControlPoints(Chain, k, HeadingDir(aircraft.heading), RunwayDirection(env))

\* the end tangent P3 - P2 of the segment arriving at anchor k, and the start tangent
\* P1 - P0 of the segment leaving it
EndTangent(k) == Sub(ChainControlPoints(k - 1).P3, ChainControlPoints(k - 1).P2)
StartTangent(k) == Sub(ChainControlPoints(k).P1, ChainControlPoints(k).P0)

\* the chords before and after anchor k are not collinear
Corner(k) == Cross(Sub(Chain[k], Chain[k - 1]), Sub(Chain[k + 1], Chain[k])) # 0

\* two vectors point in the same direction, up to the rounding of the control points
\* (an angle whose tangent is at most 1/20)
SameDirection(a, b) ==
    /\ Dot(a, b) > 0
    /\ 20 * Cross(a, b) <= Dot(a, b)
    /\ -20 * Cross(a, b) <= Dot(a, b)

\* C24: the stitched Bezier chain is tangent-continuous at every interior anchor: the end
\* tangent of the segment arriving at the anchor and the start tangent of the segment
\* leaving it point in the same direction, for chains whose consecutive chords are not
\* collinear.
C24_TangentContinuousAtAnchors ==
    InserterRan =>
        \A k \in 2..(Len(Chain) - 1) :
            Corner(k) => SameDirection(EndTangent(k), StartTangent(k))


\* the trajectory the last validation of the plan or of a rebuild looked at
ValidatedTrajectory == IF Last(log).kind = "initial" THEN trajectory ELSE trajectory_retry

\* a sample is inside an obstacle: horizontal distance <= radius and 0 <= altitude <= height
Hits(sample, cylinder) ==
    /\ (sample.x - cylinder.x) * (sample.x - cylinder.x)
         + (sample.y - cylinder.y) * (sample.y - cylinder.y) <= cylinder.radius * cylinder.radius
    /\ 0 <= sample.z
    /\ sample.z <= cylinder.height

\* C25: _check_trajectory_collision reports a collision if and only if some sample is
\* inside some obstacle; the first-collision index is the smallest index of a colliding
\* sample, -1 when there is none; the obstacle list holds exactly the obstacles hit by at
\* least one sample, each once.
C25_ValidationScansEverything ==
    (log # <<>> /\ IsValidated(Last(log)) /\ Last(log).kind \in {"initial", "rebuild"}) =>
        \E checked \in {CheckTrajectoryCollisionResult(ValidatedTrajectory, cylinders)} :
        LET traj == ValidatedTrajectory
            colliding_samples ==
                {i \in 1..Len(traj) : \E c \in 1..Len(cylinders) : Hits(traj[i], cylinders[c])}
            hit_obstacles ==
                {c \in 1..Len(cylinders) : \E i \in 1..Len(traj) : Hits(traj[i], cylinders[c])}
            listed == checked.colliding_cylinders
        IN /\ checked.has_collision = Last(log).collision
           /\ checked.has_collision <=> colliding_samples # {}
           /\ IF colliding_samples = {} THEN checked.first_collision_idx = -1
              ELSE /\ checked.first_collision_idx + 1 \in colliding_samples
                   /\ \A i \in colliding_samples : checked.first_collision_idx + 1 <= i
           /\ {listed[k] + 1 : k \in 1..Len(listed)} = hit_obstacles
           /\ Len(listed) = Cardinality(hit_obstacles)

\* a validation found several colliding samples, the first of them after the start, and
\* one of two obstacles hit
C25_Witness ==
    /\ log # <<>>
    /\ IsValidated(Last(log))
    /\ Last(log).kind \in {"initial", "rebuild"}
    /\ Last(log).collision
    /\ Len(cylinders) = 2
    /\ \E checked \in {CheckTrajectoryCollisionResult(ValidatedTrajectory, cylinders)} :
          /\ Len(checked.colliding_cylinders) = 1
          /\ checked.first_collision_idx > 0
          /\ \E i \in (checked.first_collision_idx + 2)..Len(ValidatedTrajectory) :
                \E c \in 1..2 : Hits(ValidatedTrajectory[i], cylinders[c])

\* the time a step takes at the mean of the speeds of its two samples, in hundredths of a
\* second
StepTime(traj, speeds, i) == Rnd(StepLength(traj, i) * 7200, speeds[i] + speeds[i - 1])

\* C26: in both modes the time stamp of a sample is the sum over the preceding steps of the
\* step length divided by the mean speed of its two samples (each step adds its own time,
\* up to the time of 0.01 km and the rounding of the stamps), so that at constant speed the
\* time stamp is the cumulative distance divided by the speed, however the samples are spaced.
C26_TimeStampsFollowDistance ==
    (Done /\ result.status = "trajectory") =>
        /\ parameters.time[1] = 0
        /\ \A i \in 2..Len(result.trajectory) :
              /\ AvgSpeedPositive(parameters.speed, i)
              /\ LET elapsed == parameters.time[i] - parameters.time[i - 1]
                     expected == StepTime(result.trajectory, parameters.speed, i)
                     allowed == Rnd(7200, parameters.speed[i] + parameters.speed[i - 1]) + 2
                 IN elapsed - expected <= allowed /\ expected - elapsed <= allowed

\* the number of samples of the circular arc at the head of a tangent-arc result
ArcSamples == Cardinality({i \in 1..Len(result.trajectory) : result.trajectory[i].ph = "arc"})

\* the horizontal distance flown on the approach at sample i of a tangent-arc result
ApproachDistance(i) ==
    Norm(<<result.trajectory[i].x - result.trajectory[ArcSamples + 1].x,
           result.trajectory[i].y - result.trajectory[ArcSamples + 1].y>>)

\* sample i of the approach is before the deceleration zone: in the first 33% of the
\* approach distance
BeforeDecelerationZone(i) ==
    ApproachDistance(i) * 100 < ApproachDistance(Len(result.trajectory)) * 33

\* C27: in tangent-arc mode the speed is the cruise speed on every sample of the arc and of
\* the approach before the deceleration zone (the first 33% of the approach distance); from
\* there on it never increases from a sample to the next, and it is the approach speed of
\* the aircraft type at the last sample (the FAF).
C27_DeceleratesToApproachSpeed ==
    (Done /\ result.status = "trajectory" /\ SpeedProfileMode) =>
        LET speeds == parameters.speed
            n == Len(result.trajectory)
        IN /\ \A i \in 1..n : ~IsNaN(speeds[i])
           /\ \A i \in 1..ArcSamples : speeds[i] = aircraft.speed
           /\ \A i \in (ArcSamples + 1)..n :
                 BeforeDecelerationZone(i) => speeds[i] = aircraft.speed
           /\ \A i \in (ArcSamples + 2)..n : speeds[i] <= speeds[i - 1]
           /\ speeds[n] = ApproachSpeed(aircraft.type)

\* the heading change of step i as the arrays give it, before any correction
RawHeadingChange(i) == parameters.heading[i] - parameters.heading[i - 1]

\* delta / delta_time in hundredths of a degree per second, rounded like the turn rates
RateOf(delta, delta_time) ==
    IF delta >= 0 THEN Rnd(delta * 100, delta_time) ELSE -Rnd(-delta * 100, delta_time)

\* C28: for every sample after the first whose time step is positive, the turn rate is
\* delta / delta_time with delta the heading change along the shortest arc: delta is
\* congruent to heading[i] - heading[i-1] modulo 360 degrees and lies in [-180, 180], so a
\* heading that crosses the 0/360 boundary never gives a change above 180 degrees.
C28_TurnRateAlongShortestArc ==
    (Done /\ result.status = "trajectory") =>
        \A i \in 2..Len(result.trajectory) :
            LET delta_time == parameters.time[i] - parameters.time[i - 1]
            IN delta_time > 0 =>
                  \E turns \in -1..1 :
                      LET delta == RawHeadingChange(i) + turns * 2 * HalfTurn
                      IN /\ -HalfTurn <= delta
                         /\ delta <= HalfTurn
                         /\ parameters.turn_rate[i] = RateOf(delta, delta_time)

\* a returned trajectory has a step, of positive duration, whose heading crosses the
\* 0/360 boundary, and a step that turns without crossing it
C28_Witness ==
    /\ Done
    /\ result.status = "trajectory"
    /\ \E i \in 2..Len(result.trajectory) :
          /\ parameters.time[i] - parameters.time[i - 1] > 0
          /\ (RawHeadingChange(i) > HalfTurn \/ RawHeadingChange(i) < -HalfTurn)
    /\ \E i \in 2..Len(result.trajectory) :
          /\ parameters.time[i] - parameters.time[i - 1] > 0
          /\ RawHeadingChange(i) # 0
          /\ RawHeadingChange(i) <= HalfTurn
          /\ RawHeadingChange(i) >= -HalfTurn


\* the altitude profiler has run in this call
Profiled == profile # NoProfile

\* C29: the three phase lengths of the altitude profiler partition the horizontal distance
\* L to the FAF, with enough distance and without: level_flight_distance,
\* transition_distance and descent_distance are each >= 0 and their sum is L.
C29_PhasesPartitionTheDistance ==
    Profiled =>
        /\ profile.level >= 0
        /\ profile.transition >= 0
        /\ profile.descent >= 0
        /\ profile.level + profile.transition + profile.descent = profile.total
        /\ profile.total = Norm(Sub(XY(env.faf_position), XY(aircraft.position)))

\* the profiler ran without enough distance and shortened the transition to 30% of L
C29_Witness ==
    /\ Profiled
    /\ profile.limited
    /\ profile.total > 0
    /\ profile.transition < profile.transition0
    /\ profile.descent > 0

\* C30: in progressive-alignment mode the altitude of every sample of a returned trajectory
\* lies between the start altitude and the FAF altitude, both included, whether the FAF is
\* below the start or above it.
C30_AltitudeBetweenStartAndFaf ==
    (Done /\ result.status = "trajectory" /\ mode = "progressive") =>
        \A i \in 1..Len(result.trajectory) :
            /\ result.trajectory[i].z >= Min(aircraft.position[3], env.faf_position[3])
            /\ result.trajectory[i].z <= Max(aircraft.position[3], env.faf_position[3])

====
